---- MODULE Spec2Model ----
(***************************************************************************)
(* Illumination controller of the multi-contrast laser endoscopy          *)
(* acquisition program (src/acquisition/desktop/LightController.cpp).     *)
(*                                                                         *)
(* float values (powers, weights, image means, angles) are modelled as    *)
(* exact rationals <<n, d>> with d > 0, kept in lowest terms.  unsigned   *)
(* counters are naturals; where the source subtracts unsigned values the  *)
(* 32-bit wrap is modelled explicitly (WrapMod, RotnCond).                *)
(***************************************************************************)
EXTENDS Integers, Sequences, FiniteSets, TLC

(***************************************************************************)
(* Bounds of the model                                                     *)
(***************************************************************************)
\* number of frames (IncrementPrgrm calls) explored
MaxFid == 4
\* largest buffer offset the synchronisation search may reach
MaxOffset == 4
\* largest number of telemetry records pending in the inbound queue
MaxRx == 1
\* the feedback law is evaluated for prior powers k / PwrGrid, k in 0 .. PwrGrid
PwrGrid == 20
\* largest number of command records pending in the outbound queue (the
\* worker polls every 3 ms, a frame arrives every 33 ms)
MaxTx == 1
\* serial link on its own: frames explored, command records pending, and
\* bytes pending in the receive buffer of the port
MaxSerFid == 2
MaxSerTx == 2
MaxRxBytes == 24
MaxSerRx == 2
\* frames explored before the serial link is destroyed
MaxStopFid == 1
\* frames explored in a mode entered after the synchronisation
MaxSyncedFrames == 6
\* frames explored with the simulated plant
MaxPlantFrames == 10
\* frames explored while the main thread changes the mode
MaxRaceFid == 3
\* frames explored around the wrap of the frame id
MaxWrapFrames == 3

(***************************************************************************)
(* Rational arithmetic                                                     *)
(***************************************************************************)
Abs(x) == IF x < 0 THEN -x ELSE x

RECURSIVE GCD(_, _)
GCD(a, b) == IF b = 0 THEN a ELSE GCD(b, a % b)

Norm(n, d) ==
    LET g == GCD(Abs(n), Abs(d))
        s == IF d < 0 THEN -1 ELSE 1
    IN  <<(s * n) \div g, (s * d) \div g>>

R(n) == <<n, 1>>
RAdd(a, b) == Norm(a[1] * b[2] + b[1] * a[2], a[2] * b[2])
RSub(a, b) == Norm(a[1] * b[2] - b[1] * a[2], a[2] * b[2])
RMul(a, b) == Norm(a[1] * b[1], a[2] * b[2])
RDiv(a, b) == Norm(a[1] * b[2], a[2] * b[1])
RLt(a, b) == a[1] * b[2] < b[1] * a[2]
RLe(a, b) == a[1] * b[2] <= b[1] * a[2]
RGt(a, b) == RLt(b, a)
\* truncation toward zero of a non-negative rational
RTrunc(a) == a[1] \div a[2]

(***************************************************************************)
(* Types.h, LightController.h, ThreadedSerial.h: constants                 *)
(***************************************************************************)
IMG_CHNL == {"RED", "GREEN", "BLUE", "MONO"}
MODE == {"OFF", "WLE", "PSE", "LSCI", "MULTI", "SSFDI", "WARMUP", "SYNC"}

NO_LASER_DIODES == 15
NO_PHOTO_DIODES == 3
ROT_ANG_MAX == 310
ROT_ANG_MIN == 265
\* the largest value of a 32-bit int
INT_MAX == 2147483647
FID_RESET == -1
FID_ERROR == -2
MAX_IMG_INTENSITY == 255
TARGET_IMG_INTENSITY == 128
PW_MAX == 14000
PW_LSCI == 7000
PWR_START == <<1, 5>>
PWR_MAX == <<1, 1>>
PWR_MIN == <<1, 100>>
\* the literal 0.999f of UpdatePower
PWR_FB_CAP == <<999, 1000>>
\* the literal 40.f of the synchronisation test
SYNC_THRESHOLD == 40
\* unsigned short: 2^16
USHORT_RANGE == 65536
\* sizeof(input_entry): int fid, unsigned short pdvs[6]
SIZEOF_INPUT_ENTRY == 16

(***************************************************************************)
(* LightController.cpp: program tables.  A program is a sequence of steps  *)
(* (std::pair): first = weights, second = autoexposure channel.            *)
(***************************************************************************)
w0 == <<0, 1>>
w1 == <<1, 1>>
w85 == <<17, 20>>
w7 == <<7, 10>>

Step(ws, c) == [first |-> ws, second |-> c]

wle_prgrm ==
    << Step(<<w1,w85,w85,w1,w85,w85,w1,w85,w85,w0,w0,w0,w0,w0,w0>>, "MONO") >>

pse_prgrm ==
    << Step(<<w85,w85,w85,w0,w0,w0,w0,w0,w0,w0,w0,w0,w0,w0,w0>>, "MONO"),
       Step(<<w0,w0,w0,w85,w85,w85,w0,w0,w0,w0,w0,w0,w0,w0,w0>>, "MONO"),
       Step(<<w0,w0,w0,w0,w0,w0,w85,w85,w85,w0,w0,w0,w0,w0,w0>>, "MONO") >>

lsci_prgrm ==
    << Step(<<w1,w85,w85,w1,w85,w85,w1,w85,w85,w0,w0,w0,w0,w0,w0>>, "MONO"),
       Step(<<w0,w0,w0,w0,w0,w0,w0,w0,w0,w0,w0,w0,w0,w0,w1>>, "RED") >>

\* step 1 is written with 14 weights in the source
multi_prgrm ==
    << Step(<<w0,w0,w0,w0,w0,w0,w0,w0,w0,w1,w0,w0,w0,w0,w0>>, "BLUE"),
       Step(<<w0,w7,w0,w0,w1,w0,w0,w0,w0,w0,w0,w0,w0,w0>>, "GREEN"),
       Step(<<w7,w0,w0,w1,w0,w0,w0,w0,w0,w0,w0,w0,w0,w0,w0>>, "RED"),
       Step(<<w0,w0,w7,w0,w0,w1,w0,w0,w0,w0,w0,w0,w0,w0,w0>>, "BLUE"),
       Step(<<w0,w0,w0,w0,w0,w0,w0,w0,w0,w0,w0,w1,w0,w0,w0>>, "GREEN"),
       Step(<<w0,w0,w0,w0,w0,w0,w0,w0,w0,w0,w0,w0,w0,w1,w0>>, "RED"),
       Step(<<w0,w0,w0,w0,w0,w0,w0,w0,w0,w0,w1,w0,w0,w0,w0>>, "BLUE"),
       Step(<<w0,w0,w0,w0,w0,w0,w0,w0,w0,w0,w0,w0,w1,w0,w0>>, "GREEN") >>

ssfdi_prgrm ==
    << Step(<<w0,w0,w0,w0,w0,w0,w1,w0,w0,w0,w0,w0,w0,w0,w0>>, "RED"),
       Step(<<w0,w0,w0,w0,w0,w0,w0,w0,w0,w0,w0,w0,w0,w0,w1>>, "RED") >>

warmup_prgrm ==
    << Step(<<w1,w1,w1,w1,w1,w1,w1,w1,w1,w1,w1,w1,w1,w1,w1>>, "MONO"),
       Step(<<w1,w1,w1,w1,w1,w1,w1,w1,w1,w1,w1,w1,w1,w1,w1>>, "MONO") >>

\* variant: the first diode of the OFF program is left enabled
off_prgrm_Lit ==
    << Step(<<w1,w0,w0,w0,w0,w0,w0,w0,w0,w0,w0,w0,w0,w0,w0>>, "MONO") >>

off_prgrm ==
    << Step(<<w0,w0,w0,w0,w0,w0,w0,w0,w0,w0,w0,w0,w0,w0,w0>>, "MONO") >>

\* the switch of SetMode (the SYNC branch installs off_prgrm)
\* variant: SSFDI installs the LSCI table
PrgrmOf_SsfdiAsLsci(mode) ==
    CASE mode = "WLE"    -> wle_prgrm
      [] mode = "PSE"    -> pse_prgrm
      [] mode = "LSCI"   -> lsci_prgrm
      [] mode = "MULTI"  -> multi_prgrm
      [] mode = "SSFDI"  -> lsci_prgrm
      [] mode = "WARMUP" -> warmup_prgrm
      [] mode = "OFF"    -> off_prgrm
      [] OTHER           -> off_prgrm

PrgrmOf(mode) ==
    CASE mode = "WLE"    -> wle_prgrm
      [] mode = "PSE"    -> pse_prgrm
      [] mode = "LSCI"   -> lsci_prgrm
      [] mode = "MULTI"  -> multi_prgrm
      [] mode = "SSFDI"  -> ssfdi_prgrm
      [] mode = "WARMUP" -> warmup_prgrm
      [] mode = "OFF"    -> off_prgrm
      [] OTHER           -> off_prgrm

(***************************************************************************)
(* Inputs of the environment                                               *)
(***************************************************************************)
\* per-field channel means in b, g, r order
Means == { <<0, 0, 0>>, <<1, 128, 255>> }

\* values a read one past the end of a 14-element weight vector may yield
OobWeights == { <<-1, 1>>, <<0, 1>>, <<1, 1>>, <<8, 1>> }

\* frame ids of telemetry records the device may send
RxFids == { FID_ERROR, 0 }

\* values serialib::openDevice may return: 1 on success, a negative code
\* otherwise
OpenResults == { 1, -1, -2 }

\* modes requested while the serial link is examined on its own
SerModes == { "OFF", "WARMUP", "SYNC" }

\* channel means of the frames grabbed meanwhile
SerMeans == { <<1, 128, 255>> }

\* sizes of the pieces in which the bytes of the device arrive at the port
RxChunks == { 8, 16 }

\* buffer offsets the synchronisation search ends with (2 per call until the
\* pulse is seen), on both sides of the constant 10 * 2 of the rotation loop
SyncedOffsets == { 2, 4, 20, 24 }

\* modes chosen in the CLI while frames are grabbed, and the means of the
\* frames
RaceModes == { "OFF", "WLE", "PSE", "LSCI", "MULTI" }
RaceMeans == { <<1, 128, 255>>, <<0, 0, 0>> }

\* buffer offsets with which the simulated plant is driven (the powers stay
\* exact fractions of moderate size when each is updated once in the run)
PlantOffsets == { 12, 14, 16 }

\* modes entered once synchronised
SyncedModes == { "WLE", "PSE", "LSCI", "MULTI", "SSFDI", "OFF" }

\* frame ids found in an input_entry that readBytes did not fill
GarbageFids == { FID_ERROR, 7 }

(***************************************************************************)
(* LightController.cpp: pure helpers                                       *)
(***************************************************************************)
\* variant: the lower clamp is missing
ClampPwr_NoFloor(pwr) ==
    IF RGt(pwr, PWR_MAX) THEN PWR_MAX ELSE pwr

\* LightController::ClampPwr
ClampPwr(pwr) ==
    IF RLt(pwr, PWR_MIN) THEN PWR_MIN
    ELSE IF RGt(pwr, PWR_MAX) THEN PWR_MAX
    ELSE pwr

\* variant: the numerator is taken from the target intensity
UpdatePower_TargetNum(prevIntensity, prevPwr) ==
    LET yFixed == RAdd(R(MAX_IMG_INTENSITY), R(1))
        alpha  == RMul(RSub(yFixed, R(TARGET_IMG_INTENSITY)), PWR_MAX)
        num    == RMul(RMul(RSub(R(TARGET_IMG_INTENSITY), prevIntensity), prevPwr),
                       PWR_MAX)
        den    == RAdd(RMul(RSub(R(TARGET_IMG_INTENSITY), prevIntensity), prevPwr), alpha)
        newPwr == RDiv(num, den)
    IN  IF RGt(newPwr, PWR_FB_CAP) THEN PWR_FB_CAP ELSE newPwr

\* variant: the result is not capped at 0.999
UpdatePower_NoCap(prevIntensity, prevPwr) ==
    LET yFixed == RAdd(R(MAX_IMG_INTENSITY), R(1))
        alpha  == RMul(RSub(yFixed, R(TARGET_IMG_INTENSITY)), PWR_MAX)
        num    == RMul(RMul(RSub(yFixed, prevIntensity), prevPwr), PWR_MAX)
        den    == RAdd(RMul(RSub(R(TARGET_IMG_INTENSITY), prevIntensity), prevPwr), alpha)
    IN  RDiv(num, den)

\* LightController::UpdatePower
UpdatePower(prevIntensity, prevPwr) ==
    LET yFixed == RAdd(R(MAX_IMG_INTENSITY), R(1))
        alpha  == RMul(RSub(yFixed, R(TARGET_IMG_INTENSITY)), PWR_MAX)
        num    == RMul(RMul(RSub(yFixed, prevIntensity), prevPwr), PWR_MAX)
        den    == RAdd(RMul(RSub(R(TARGET_IMG_INTENSITY), prevIntensity), prevPwr), alpha)
        newPwr == RDiv(num, den)
    IN  IF RGt(newPwr, PWR_FB_CAP) THEN PWR_FB_CAP ELSE newPwr

\* variant: the offset of the line is the upper limit
Power2RotnAngle_FromMax(power) ==
    RAdd(RMul(R(ROT_ANG_MAX - ROT_ANG_MIN), power), R(ROT_ANG_MAX))

\* LightController::Power2RotnAngle
Power2RotnAngle(power) ==
    RAdd(RMul(R(ROT_ANG_MAX - ROT_ANG_MIN), power), R(ROT_ANG_MIN))

\* float oddChnlMeans[3], evenChnlMeans[3]: the channel means as floats
ToFloats(means) == << R(means[1]), R(means[2]), R(means[3]) >>

\* (vals[0] + vals[1] + vals[2]) / 3.f
MonoMean(vals) == RDiv(RAdd(RAdd(vals[1], vals[2]), vals[3]), R(3))

\* the switch on mPrgrm[frameIdx].second; vals is in b, g, r order
ChnlVal(chnl, vals) ==
    CASE chnl = "BLUE"  -> vals[1]
      [] chnl = "GREEN" -> vals[2]
      [] chnl = "RED"   -> vals[3]
      [] chnl = "MONO"  -> MonoMean(vals)

\* variant: the test looks at the blue channel only
SyncDetected_Blue(oddBgrVals) == RGt(oddBgrVals[1], R(SYNC_THRESHOLD))

\* the test for the arrival of the sync pulse
SyncDetected(oddBgrVals) == RGt(MonoMean(oddBgrVals), R(SYNC_THRESHOLD))

\* variant: SSFDI is not gated by the sync flag
SetModeAllowed_SyncGated(mode, synced) ==
    synced \/ mode \in {"WARMUP", "OFF"}

SetModeAllowed_SsfdiUngated(mode, synced) ==
    synced \/ mode \in {"SYNC", "WARMUP", "OFF", "SSFDI"}

\* the guard at the top of SetMode
SetModeAllowed(mode, synced) ==
    ~ (~synced /\ ~(mode = "SYNC" \/ mode = "WARMUP" \/ mode = "OFF"))

\* x mod L for the unsigned 32-bit value of the signed difference x
Pow32Mod(L) == ((USHORT_RANGE % L) * (USHORT_RANGE % L)) % L
WrapMod(x, L) == IF x >= 0 THEN x % L ELSE ((x % L) + Pow32Mod(L)) % L

\* variant: the program step is taken one count ahead
PrgrmIdx_Shifted(count, L) == (count + 1) % L

\* prgrmIdx = mPrgrmCount % mPrgrm.size()
PrgrmIdx(count, L) == count % L

\* variant: the observation is attributed to the step being emitted
FrameIdx_NoOffset(count, offset, L) == count % L

FrameIdx(count, offset, L) == WrapMod(count - offset, L)

\* variant: observations are taken from the first field on
ObserveCond_Always(count, offset) == TRUE

\* mPrgrmCount >= mBufferOffset
ObserveCond(count, offset) == count >= offset

\* (int)ceilf((float)mBufferOffset / (float)mPrgrm.size())
CeilDiv(a, b) == (a + b - 1) \div b

\* variant: feedback starts as soon as the buffer offset is passed
FeedbackCond_Offset(count, offset, L) == count >= offset

\* mPrgrmCount >= mPrgrm.size() * (int)ceilf(...)
FeedbackCond(count, offset, L) == count >= L * CeilDiv(offset, L)

\* mPrgrmCount >= mBufferOffset - (10 * 2), evaluated in unsigned 32-bit
RotnCond(count, offset) ==
    IF offset >= 20 THEN count >= offset - 20
    ELSE (count + (20 - offset)) \div USHORT_RANGE >= USHORT_RANGE

\* mPrgrm[idx].first[n]; a read past the end of the vector yields oob
Weight(prg, idx, n, oob) ==
    LET ws == prg[idx + 1].first
    IN  IF n + 1 <= Len(ws) THEN ws[n + 1] ELSE oob

\* newPwr * mPrgrm[prgrmIdx].first[n] (not reduced: it is only converted
\* to a pulse width)
ChnlPwr(newPwr, w) == <<newPwr[1] * w[1], newPwr[2] * w[2]>>

\* variant: a PDV record is logged for the error record as well
RxLog_AlwaysPdv(rxq) ==
    IF rxq = <<>> THEN <<>>
    ELSE IF Head(rxq) = FID_ERROR THEN << "ERR", "PDV" >>
    ELSE << "PDV" >>

\* the log records written for the telemetry record drained by the step
RxLog(rxq) ==
    IF rxq = <<>> THEN <<>>
    ELSE IF Head(rxq) = FID_ERROR THEN << "ERR" >>
    ELSE << "PDV" >>

\* variant: the frame id advances once per field
NextFid_PerField(fid) == fid + 2

\* mFid++ on an unsigned int.  mFid is held as its 32-bit pattern read in
\* two's complement, which is the value output_entry::fid (an int) receives:
\* the values 2^31 .. 2^32 - 1 of the counter are INT_MIN .. -1
NextFid(fid) == IF fid = INT_MAX THEN (-INT_MAX) - 1 ELSE fid + 1

ZeroPwrs == [n \in 0 .. (2 * NO_LASER_DIODES - 1) |-> <<0, 1>>]

\* variant: the sync pulse is sent on both fields
SyncFlashPwrs_BothFields == [n \in 0 .. (2 * NO_LASER_DIODES - 1) |-> <<1, 1>>]

\* the sync pulse: all diodes enabled on the odd field
SyncFlashPwrs == [n \in 0 .. (2 * NO_LASER_DIODES - 1) |->
                    IF n < NO_LASER_DIODES THEN <<1, 1>> ELSE <<0, 1>>]

\* variant: the warmup branch halves the weights
WarmupPwrs_Half(prg) == [n \in 0 .. (2 * NO_LASER_DIODES - 1) |->
                    IF n < NO_LASER_DIODES
                    THEN RMul(<<1, 2>>, prg[1].first[n + 1])
                    ELSE RMul(<<1, 2>>, prg[2].first[n - NO_LASER_DIODES + 1])]

\* the warmup branch: steps 0 and 1 of the installed program
WarmupPwrs(prg) == [n \in 0 .. (2 * NO_LASER_DIODES - 1) |->
                    IF n < NO_LASER_DIODES
                    THEN Weight(prg, 0, n, <<0, 1>>)
                    ELSE Weight(prg, 1, n - NO_LASER_DIODES, <<0, 1>>)]

\* variant: the product is rounded to the nearest integer
ToPw_Round(pwr) ==
    ((2 * PW_MAX * pwr[1] + pwr[2]) \div (2 * pwr[2])) % USHORT_RANGE

\* pws[n] = (unsigned short)(PW_MAX * pwrs[n])
ToPw(pwr) == ((PW_MAX * pwr[1]) \div pwr[2]) % USHORT_RANGE
ToPws(pwrs) == [n \in 0 .. (2 * NO_LASER_DIODES - 1) |-> ToPw(pwrs[n])]

\* variant: the odd-field entry of the diode is overwritten instead
LsciOverride_Odd(pws) == [pws EXCEPT ![14] = PW_LSCI]

\* pws[29] = PW_LSCI
LsciOverride(pws) == [pws EXCEPT ![29] = PW_LSCI]

(***************************************************************************)
(* One pass of the per-field loop of IncrementPrgrm.  s carries the        *)
(* counter, the two queues, the powers and the record of the fields.       *)
(* Intermediate results are bound as elements of singleton sets so that    *)
(* each is computed once.                                                  *)
(***************************************************************************)
\* the first half: the observation is paired with the prior emitted power
FieldObserve(s, vals, prg, offset) ==
    LET L         == Len(prg)
        frameIdx  == FrameIdx(s.count, offset, L)
        observe   == ObserveCond(s.count, offset)
        chnl      == prg[frameIdx + 1].second
        deqOk     == s.pwr # <<>>
        prevPwr   == IF deqOk THEN Head(s.pwr) ELSE <<0, 1>>
    IN  [observe |-> observe,
         chnl    |-> chnl,
         intensity |-> ChnlVal(chnl, vals),
         deqOk   |-> deqOk,
         prevPwr |-> prevPwr,
         pwr1    |-> IF observe /\ deqOk THEN Tail(s.pwr) ELSE s.pwr,
         frm1    |-> IF observe
                     THEN Append(s.frm,
                                 ClampPwr(UpdatePower(ChnlVal(chnl, vals), prevPwr)))
                     ELSE s.frm]

\* the second half: the power to emit is chosen and assigned to the channels
FieldEmit(s, f, oob, prg, offset, q) ==
    LET L         == Len(prg)
        prgrmIdx  == PrgrmIdx(s.count, L)
        useFb     == FeedbackCond(s.count, offset, L)
        frmOk     == q.frm1 # <<>>
        newPwr    == IF useFb THEN (IF frmOk THEN Head(q.frm1) ELSE <<0, 1>>)
                     ELSE PWR_START
        base      == f * NO_LASER_DIODES
    IN  [count  |-> s.count + 1,
         pwr    |-> Append(q.pwr1, newPwr),
         frm    |-> IF useFb /\ frmOk THEN Tail(q.frm1) ELSE q.frm1,
         pwrs   |-> [n \in 0 .. (2 * NO_LASER_DIODES - 1) |->
                        IF n >= base /\ n < base + NO_LASER_DIODES
                        THEN LET w == Weight(prg, prgrmIdx, n - base, oob)
                             IN  IF w[1] > 0 THEN ChnlPwr(newPwr, w)
                                 ELSE s.pwrs[n]
                        ELSE s.pwrs[n]],
         fields |-> Append(s.fields,
                           [count |-> s.count, prgrmIdx |-> prgrmIdx,
                            observed |-> q.observe, chnl |-> q.chnl,
                            intensity |-> q.intensity,
                            deqOk |-> q.deqOk, prevPwr |-> q.prevPwr,
                            updPwr |-> IF q.observe THEN q.frm1[Len(q.frm1)]
                                       ELSE <<0, 1>>,
                            useFb |-> useFb, frmOk |-> frmOk,
                            newPwr |-> newPwr])]

FieldStep(s, f, vals, oob, prg, offset) ==
    CHOOSE r \in { FieldEmit(s, f, oob, prg, offset, q) :
                     q \in { FieldObserve(s, vals, prg, offset) } } : TRUE

(***************************************************************************)
(* State                                                                   *)
(***************************************************************************)
VARIABLES
    mMode,            \* LightController::mMode
    mPrgrm,           \* LightController::mPrgrm (the installed program)
    mPrgrmCount,      \* LightController::mPrgrmCount
    mBufferOffset,    \* LightController::mBufferOffset
    mFid,             \* LightController::mFid
    mPwrBuffer,       \* power_emitted queue
    mFrmBuffer,       \* power_updated queue
    mRotBuffer,       \* rotation_power queue
    mSynced,          \* LightController::mSynced
    mPosition,        \* RotationMount::mPosition (last commanded angle)
    mOutputQueue,     \* ThreadedSerial::mOutputQueue
    mInputQueue,      \* ThreadedSerial::mInputQueue (frame ids of the records)
    lastCall,         \* history: the last operation and what it did
    emitHist,         \* history: powers emitted per field since the last mode change
    updHist,          \* history: feedback results computed per field since the last mode change
    postLatchFrames,  \* history: frames processed since the sync flag was latched
    syncPolls,        \* history: calls of the sync search since the flash
    txCount,          \* history: per-frame records handed to AddToTxQueue
    fnArgs,           \* feedback law on its own: <<prevIntensity, prevPwr>>
    fnResult,         \* feedback law on its own: << result >> once computed
    errorOpening,     \* ThreadedSerial::ThreadedSerial: result of openDevice
    console,          \* messages written to std::cout by the constructor
    mThreadRunning,   \* ThreadedSerial::mThreadRunning
    wpc,              \* position of the worker thread in ThreadedSerial::Start
    wire,             \* history: records written to the port, in order
    rxBytes,          \* bytes pending in the receive buffer of the port
    closed,           \* closeDevice has been called
    mainPc,           \* position of the main thread
    mCurrMode,        \* HookDataStruct::mCurrMode (the mode chosen in the CLI)
    hookPc            \* position of the frame hook: grab, incr

ctrl == <<mMode, mPrgrm, mPrgrmCount, mBufferOffset, mFid,
          mPwrBuffer, mFrmBuffer, mRotBuffer, mSynced>>
hist == <<lastCall, emitHist, updHist, postLatchFrames, syncPolls, txCount>>
vars == <<mMode, mPrgrm, mPrgrmCount, mBufferOffset, mFid,
          mPwrBuffer, mFrmBuffer, mRotBuffer, mSynced,
          mPosition, mOutputQueue, mInputQueue,
          lastCall, emitHist, updHist, postLatchFrames, syncPolls, txCount,
          fnArgs, fnResult,
          errorOpening, console, mThreadRunning, wpc, wire, rxBytes, closed,
          mainPc, mCurrMode, hookPc>>
fn == <<fnArgs, fnResult>>
hook == <<mCurrMode, hookPc>>
ser == <<errorOpening, console, mThreadRunning, wpc, wire, rxBytes, closed>>

ZeroPws == [n \in 0 .. (2 * NO_LASER_DIODES - 1) |-> 0]

\* output_entry{FID_RESET, {0}}
ResetEntry == [fid |-> FID_RESET, pws |-> ZeroPws]

Call(op, mode, odd, even, accepted, fields, moves, cmds, rx, log) ==
    [op |-> op, mode |-> mode, odd |-> odd, even |-> even,
     accepted |-> accepted, fields |-> fields, moves |-> moves,
     cmds |-> cmds, rx |-> rx, log |-> log]

(***************************************************************************)
(* LightController::LightController: the state after construction          *)
(***************************************************************************)
InitCtrl ==
    /\ mMode = "OFF"
    /\ mPrgrm = off_prgrm
    /\ mPrgrmCount = 0
    /\ mBufferOffset = 0
    /\ mFid = 0
    /\ mPwrBuffer = <<>>
    /\ mFrmBuffer = <<>>
    /\ mRotBuffer = <<>>
    /\ mSynced = FALSE
    /\ mPosition = Power2RotnAngle(<<1, 10>>)
    /\ mOutputQueue = << ResetEntry >>
    /\ mInputQueue = <<>>
    /\ lastCall = Call("LightController", "OFF", <<>>, <<>>, TRUE, <<>>,
                       << Power2RotnAngle(<<1, 10>>) >>, << ResetEntry >>,
                       <<>>, << "MODE" >>)
    /\ emitHist = <<>>
    /\ updHist = <<>>
    /\ postLatchFrames = 0
    /\ syncPolls = 0
    /\ txCount = 0

\* ThreadedSerial::ThreadedSerial: the messages written for a result of
\* openDevice (the test is !errorOpening on a char)
CtorConsole(res) ==
    (IF res = 0 THEN << "Device not found" >> ELSE <<>>) \o << "Device found" >>

\* main: hookData.mCurrMode = MODE::OFF; the hook waits for a frame
InitHook ==
    /\ mCurrMode = "OFF"
    /\ hookPc = "grab"

\* the serial link after construction: the port opened with result res, the
\* worker thread started
SerialCtor(res) ==
    /\ errorOpening = res
    /\ console = CtorConsole(res)
    /\ mThreadRunning = TRUE
    /\ wpc = "loop"
    /\ wire = <<>>
    /\ rxBytes = 0
    /\ closed = FALSE
    /\ mainPc = "run"

Init ==
    /\ InitCtrl
    /\ SerialCtor(1)
    /\ InitHook
    /\ fnArgs = <<>>
    /\ fnResult = <<>>

(***************************************************************************)
(* LightController::SetMode                                                *)
(***************************************************************************)
\* variant: the rotation queue is not drained
SetMode_KeepsRotBuffer(mode) ==
    IF ~SetModeAllowed(mode, mSynced)
    THEN /\ lastCall' = Call("SetMode", mode, <<>>, <<>>, FALSE, <<>>, <<>>,
                             <<>>, <<>>, <<>>)
         /\ UNCHANGED <<ctrl, mPosition, mOutputQueue, mInputQueue,
                        emitHist, updHist, postLatchFrames, syncPolls, txCount, fn, ser, mCurrMode>>
    ELSE LET moves == IF mode = "SSFDI"
                      THEN << Power2RotnAngle(<<1, 1>>) >> ELSE <<>>
         IN
         /\ mPosition' = IF mode = "SSFDI"
                         THEN Power2RotnAngle(<<1, 1>>) ELSE mPosition
         /\ mMode' = mode
         /\ IF mode = "SYNC"
            THEN /\ mBufferOffset' = 0
                 /\ mPrgrm' = off_prgrm
                 /\ mSynced' = FALSE
                 /\ UNCHANGED <<mPwrBuffer, mRotBuffer, mFrmBuffer>>
            ELSE /\ mPrgrm' = PrgrmOf(mode)
                 /\ mPwrBuffer' = <<>>
                 /\ mRotBuffer' = mRotBuffer
                 /\ mFrmBuffer' = <<>>
                 /\ UNCHANGED <<mBufferOffset, mSynced>>
         /\ mPrgrmCount' = 0
         /\ lastCall' = Call("SetMode", mode, <<>>, <<>>, TRUE, <<>>, moves,
                             <<>>, <<>>, << "MODE" >>)
         /\ emitHist' = <<>>
         /\ updHist' = <<>>
         /\ postLatchFrames' = IF mode = "SYNC" THEN 0 ELSE postLatchFrames
         /\ syncPolls' = IF mode = "SYNC" THEN 0 ELSE syncPolls
         /\ UNCHANGED <<mFid, mOutputQueue, mInputQueue, txCount, fn, ser, mCurrMode>>

\* variant: every mode change resets the buffer offset
SetMode_ResetsOffset(mode) ==
    IF ~SetModeAllowed(mode, mSynced)
    THEN /\ lastCall' = Call("SetMode", mode, <<>>, <<>>, FALSE, <<>>, <<>>,
                             <<>>, <<>>, <<>>)
         /\ UNCHANGED <<ctrl, mPosition, mOutputQueue, mInputQueue,
                        emitHist, updHist, postLatchFrames, syncPolls, txCount, fn, ser, mCurrMode>>
    ELSE LET moves == IF mode = "SSFDI"
                      THEN << Power2RotnAngle(<<1, 1>>) >> ELSE <<>>
         IN
         /\ mPosition' = IF mode = "SSFDI"
                         THEN Power2RotnAngle(<<1, 1>>) ELSE mPosition
         /\ mMode' = mode
         /\ IF mode = "SYNC"
            THEN /\ mBufferOffset' = 0
                 /\ mPrgrm' = off_prgrm
                 /\ mSynced' = FALSE
                 /\ UNCHANGED <<mPwrBuffer, mRotBuffer, mFrmBuffer>>
            ELSE /\ mPrgrm' = PrgrmOf(mode)
                 /\ mPwrBuffer' = <<>>
                 /\ mRotBuffer' = <<>>
                 /\ mFrmBuffer' = <<>>
                 /\ mBufferOffset' = 0
                 /\ UNCHANGED mSynced
         /\ mPrgrmCount' = 0
         /\ lastCall' = Call("SetMode", mode, <<>>, <<>>, TRUE, <<>>, moves,
                             <<>>, <<>>, << "MODE" >>)
         /\ emitHist' = <<>>
         /\ updHist' = <<>>
         /\ postLatchFrames' = IF mode = "SYNC" THEN 0 ELSE postLatchFrames
         /\ syncPolls' = IF mode = "SYNC" THEN 0 ELSE syncPolls
         /\ UNCHANGED <<mFid, mOutputQueue, mInputQueue, txCount, fn, ser, mCurrMode>>

\* LightController::SetMode
SetMode(mode) ==
    IF ~SetModeAllowed(mode, mSynced)
    THEN /\ lastCall' = Call("SetMode", mode, <<>>, <<>>, FALSE, <<>>, <<>>,
                             <<>>, <<>>, <<>>)
         /\ UNCHANGED <<ctrl, mPosition, mOutputQueue, mInputQueue,
                        emitHist, updHist, postLatchFrames, syncPolls, txCount, fn, ser, mCurrMode>>
    ELSE LET moves == IF mode = "SSFDI"
                      THEN << Power2RotnAngle(<<1, 1>>) >> ELSE <<>>
         IN
         /\ mPosition' = IF mode = "SSFDI"
                         THEN Power2RotnAngle(<<1, 1>>) ELSE mPosition
         /\ mMode' = mode
         /\ IF mode = "SYNC"
            THEN /\ mBufferOffset' = 0
                 /\ mPrgrm' = off_prgrm
                 /\ mSynced' = FALSE
                 /\ UNCHANGED <<mPwrBuffer, mRotBuffer, mFrmBuffer>>
            ELSE /\ mPrgrm' = PrgrmOf(mode)
                 /\ mPwrBuffer' = <<>>
                 /\ mRotBuffer' = <<>>
                 /\ mFrmBuffer' = <<>>
                 /\ UNCHANGED <<mBufferOffset, mSynced>>
         /\ mPrgrmCount' = 0
         /\ lastCall' = Call("SetMode", mode, <<>>, <<>>, TRUE, <<>>, moves,
                             <<>>, <<>>, << "MODE" >>)
         /\ emitHist' = <<>>
         /\ updHist' = <<>>
         /\ postLatchFrames' = IF mode = "SYNC" THEN 0 ELSE postLatchFrames
         /\ syncPolls' = IF mode = "SYNC" THEN 0 ELSE syncPolls
         /\ UNCHANGED <<mFid, mOutputQueue, mInputQueue, txCount, fn, ser, mCurrMode>>

(***************************************************************************)
(* ThreadedSerial: the two queues shared with the worker thread            *)
(***************************************************************************)
\* moodycamel::ConcurrentQueue: enqueue appends at the back
enqueue(q, e) == Append(q, e)

\* moodycamel::ConcurrentQueue: try_dequeue removes the front, if any
try_dequeue(q) ==
    [ok   |-> q # <<>>,
     item |-> IF q # <<>> THEN << Head(q) >> ELSE <<>>,
     rest |-> IF q # <<>> THEN Tail(q) ELSE q]

\* variant: the poll empties the inbound queue
GetFromRxQueue_DrainAll(rxq) ==
    [ok   |-> rxq # <<>>,
     item |-> IF rxq # <<>> THEN << Head(rxq) >> ELSE <<>>,
     rest |-> <<>>]

\* ThreadedSerial::GetFromRxQueue
GetFromRxQueue(rxq) == try_dequeue(rxq)

(***************************************************************************)
(* LightController::IncrementPrgrm                                         *)
(***************************************************************************)
\* the three branches: the result is the new counter, offset, flag, the two
\* queues, the powers of the 30 channels and the record of the fields
SyncBranch(oddBgrVals) ==
    LET flash    == mBufferOffset = 0
        detected == ~flash /\ SyncDetected(oddBgrVals)
    IN  [count  |-> mPrgrmCount + 2,
         offset |-> IF flash \/ ~detected THEN mBufferOffset + 2
                    ELSE mBufferOffset,
         synced |-> detected,
         pwr    |-> mPwrBuffer,
         frm    |-> mFrmBuffer,
         pwrs   |-> IF flash THEN SyncFlashPwrs ELSE ZeroPwrs,
         fields |-> <<>>,
         log    |-> IF detected THEN << "SYNCED", "BUFF" >> ELSE <<>>]

WarmupBranch ==
    [count  |-> mPrgrmCount + 2,
     offset |-> mBufferOffset,
     synced |-> mSynced,
     pwr    |-> mPwrBuffer,
     frm    |-> mFrmBuffer,
     pwrs   |-> WarmupPwrs(mPrgrm),
     fields |-> <<>>,
     log    |-> <<>>]

FeedbackBranch(oddBgrVals, evenBgrVals, oob) ==
    CHOOSE b \in
      { [count  |-> s2.count,
         offset |-> mBufferOffset,
         synced |-> mSynced,
         pwr    |-> s2.pwr,
         frm    |-> s2.frm,
         pwrs   |-> s2.pwrs,
         fields |-> s2.fields,
         log    |-> [i \in 1 .. Len(SelectSeq(s2.fields, LAMBDA r : r.observed))
                       |-> "VALS"]] :
        s2 \in { FieldStep(s1, 1, evenBgrVals, oob, mPrgrm, mBufferOffset) :
          s1 \in { FieldStep(s0, 0, oddBgrVals, oob, mPrgrm, mBufferOffset) :
            s0 \in { [count |-> mPrgrmCount, pwr |-> mPwrBuffer,
                      frm |-> mFrmBuffer, pwrs |-> ZeroPwrs,
                      fields |-> <<>>] } } } } : TRUE

\* the rotation mount loop of the LSCI mode, run with the advanced counter
RotnStep(count, offset, evenBgrVals) ==
    LET fb      == RotnCond(count, offset)
        deqOk   == mRotBuffer # <<>>
        prevPwr == IF deqOk THEN Head(mRotBuffer) ELSE <<0, 1>>
        rot1    == IF fb /\ deqOk THEN Tail(mRotBuffer) ELSE mRotBuffer
        newPwr  == IF fb THEN ClampPwr(UpdatePower(evenBgrVals[3], prevPwr))
                   ELSE <<1, 5>>
    IN  [rot |-> Append(rot1, newPwr), angle |-> Power2RotnAngle(newPwr)]

\* the synchronisation search is followed up to MaxOffset
WithinOffset(oddBgrVals) ==
    (mMode = "SYNC" /\ ~mSynced) => SyncBranch(oddBgrVals).offset <= MaxOffset

IncrementPrgrm(oddBgrVals, evenBgrVals, oob) ==
    /\ \E b \in { IF mMode = "SYNC" /\ ~mSynced THEN SyncBranch(oddBgrVals)
                   ELSE IF mMode = "WARMUP" THEN WarmupBranch
                   ELSE FeedbackBranch(oddBgrVals, evenBgrVals, oob) } :
       \E oentry \in { [fid |-> mFid,
                         pws |-> IF mMode = "LSCI"
                                 THEN LsciOverride(ToPws(b.pwrs))
                                 ELSE ToPws(b.pwrs)] } :
       \E rotn \in { RotnStep(b.count, b.offset, evenBgrVals) } :
        LET lsci   == mMode = "LSCI"
            gotRx  == mInputQueue # <<>>
            rxLog  == RxLog(mInputQueue)
        IN
        /\ mPrgrmCount' = b.count
        /\ mBufferOffset' = b.offset
        /\ mSynced' = b.synced
        /\ mPwrBuffer' = b.pwr
        /\ mFrmBuffer' = b.frm
        /\ mRotBuffer' = IF lsci THEN rotn.rot ELSE mRotBuffer
        /\ mPosition' = IF lsci THEN rotn.angle ELSE mPosition
        /\ mOutputQueue' = Append(mOutputQueue, oentry)
        /\ mInputQueue' = GetFromRxQueue(mInputQueue).rest
        /\ mFid' = NextFid(mFid)
        /\ lastCall' = Call("IncrementPrgrm", mMode, oddBgrVals, evenBgrVals, TRUE,
                            b.fields,
                            IF lsci THEN << rotn.angle >> ELSE <<>>,
                            << oentry >>,
                            IF gotRx THEN << Head(mInputQueue) >> ELSE <<>>,
                            b.log \o (IF lsci THEN << "ROTN" >> ELSE <<>>)
                                  \o << "PWS" >> \o rxLog)
        /\ emitHist' = emitHist \o [i \in 1 .. Len(b.fields) |-> b.fields[i].newPwr]
        /\ updHist' = updHist \o [i \in 1 .. Len(b.fields) |-> b.fields[i].updPwr]
        /\ postLatchFrames' = IF mSynced THEN postLatchFrames + 1 ELSE 0
        /\ syncPolls' = IF mMode = "SYNC" /\ ~mSynced /\ mBufferOffset # 0
                        THEN syncPolls + 1 ELSE syncPolls
        /\ txCount' = txCount + 1
        /\ UNCHANGED <<mMode, mPrgrm, fn, ser, mainPc, mCurrMode>>

(***************************************************************************)
(* ThreadedSerial::Start: one pass of the worker loop either writes the    *)
(* pending outbound record to the port or moves a telemetry record read    *)
(* from the port to the inbound queue                                      *)
(***************************************************************************)
WorkerSend ==
    /\ mOutputQueue # <<>>
    /\ mOutputQueue' = Tail(mOutputQueue)
    /\ lastCall' = Call("Start", "-", <<>>, <<>>, TRUE, <<>>, <<>>,
                        << Head(mOutputQueue) >>, <<>>, <<>>)
    /\ UNCHANGED <<ctrl, mPosition, mInputQueue,
                   emitHist, updHist, postLatchFrames, syncPolls, txCount, fn, ser, mainPc, hook>>

WorkerReceive(fid) ==
    /\ Len(mInputQueue) < MaxRx
    /\ mInputQueue' = Append(mInputQueue, fid)
    /\ lastCall' = Call("Start", "-", <<>>, <<>>, TRUE, <<>>, <<>>, <<>>,
                        << fid >>, <<>>)
    /\ UNCHANGED <<ctrl, mPosition, mOutputQueue,
                   emitHist, updHist, postLatchFrames, syncPolls, txCount, fn, ser, mainPc, hook>>

Next ==
    \/ \E mode \in MODE : SetMode(mode) /\ UNCHANGED <<mainPc, hookPc>>
    \/ \E odd \in Means, even \in Means :
         \E oob \in (IF mMode = "MULTI" THEN OobWeights ELSE { <<0, 1>> }) :
            /\ mFid < MaxFid
            /\ Len(mOutputQueue) < MaxTx
            /\ WithinOffset(ToFloats(odd))
            /\ IncrementPrgrm(ToFloats(odd), ToFloats(even), oob)
            /\ UNCHANGED hookPc
    \/ WorkerSend
    \/ \E fid \in RxFids : WorkerReceive(fid)

Spec == Init /\ [][Next]_vars

(***************************************************************************)
(* The feedback law on its own: newPwr = ClampPwr(UpdatePower(prevIntensity,*)
(* prevPwr)) for every intensity k/3 in [0, 255] (a mean of three 8-bit    *)
(* channels) and every prior power of the grid                             *)
(***************************************************************************)
FnIntensities == { Norm(k, 3) : k \in 0 .. (3 * MAX_IMG_INTENSITY) }
FnPowers == { Norm(k, PwrGrid) : k \in 0 .. PwrGrid }
              \cup { PWR_MIN, PWR_START, PWR_FB_CAP, PWR_MAX, <<0, 1>> }

InitFeedback ==
    /\ InitCtrl
    /\ SerialCtor(1)
    /\ InitHook
    /\ fnArgs \in FnIntensities \X FnPowers
    /\ fnResult = <<>>

ApplyFeedback ==
    /\ fnResult = <<>>
    /\ fnResult' = << ClampPwr(UpdatePower(fnArgs[1], fnArgs[2])) >>
    /\ UNCHANGED <<ctrl, mPosition, mOutputQueue, mInputQueue, hist, fnArgs,
                   ser, mainPc, hook>>

NextFeedback == ApplyFeedback

SpecFeedback == InitFeedback /\ [][NextFeedback]_vars


(***************************************************************************)
(* The serial link on its own: ThreadedSerial::Start step by step, the     *)
(* bytes of the device, and the clean up of main                           *)
(***************************************************************************)
\* the handle of the port is valid
PortOpen == errorOpening = 1 /\ ~closed

\* serialib::writeBytes: 1 on success, -1 on error (WriteFile on the open
\* port is taken to succeed, on an invalid handle it fails)
WriteOutcomes == IF PortOpen THEN { "ok" } ELSE { "error" }

\* serialib::available: the pending bytes; the count is not set when the
\* handle is invalid
Available == IF PortOpen THEN { rxBytes } ELSE { 0, SIZEOF_INPUT_ENTRY + 1 }

\* serialib::readBytes without timeout: all the bytes, or an error code
ReadOutcomes == IF PortOpen THEN { "ok", "error" } ELSE { "error" }

\* the reads of sizeof(input_entry) bytes that b pending bytes allow
PendingReads(b) ==
    IF b > SIZEOF_INPUT_ENTRY THEN (b - 1) \div SIZEOF_INPUT_ENTRY ELSE 0

\* variant: the loop does not test the flag
WorkerLoop_IgnoresFlag ==
    /\ wpc = "loop"
    /\ wpc' = "tx"
    /\ lastCall' = Call("Start", "loop", <<>>, <<>>, mThreadRunning, <<>>, <<>>,
                        <<>>, <<>>, <<>>)
    /\ UNCHANGED <<ctrl, mPosition, mOutputQueue, mInputQueue,
                   emitHist, updHist, postLatchFrames, syncPolls, txCount, fn,
                   errorOpening, console, mThreadRunning, wire, rxBytes, closed,
                   mainPc, hook>>

\* while (mThreadRunning)
WorkerLoop ==
    /\ wpc = "loop"
    /\ wpc' = IF mThreadRunning THEN "tx" ELSE "exited"
    /\ lastCall' = Call("Start", "loop", <<>>, <<>>, mThreadRunning, <<>>, <<>>,
                        <<>>, <<>>, <<>>)
    /\ UNCHANGED <<ctrl, mPosition, mOutputQueue, mInputQueue,
                   emitHist, updHist, postLatchFrames, syncPolls, txCount, fn,
                   errorOpening, console, mThreadRunning, wire, rxBytes, closed,
                   mainPc, hook>>

\* variant: the record is written but left in the queue
WorkerTx_NoDequeue(outcome) ==
    /\ wpc = "tx"
    /\ outcome \in WriteOutcomes
    /\ \E d \in { try_dequeue(mOutputQueue) } :
         /\ mOutputQueue' = mOutputQueue
         /\ wire' = IF d.ok /\ outcome = "ok" THEN Append(wire, d.item[1]) ELSE wire
         /\ lastCall' = Call("Start", "tx", <<>>, <<>>, d.ok, <<>>, <<>>,
                             d.item, <<>>,
                             IF d.ok THEN << "writeBytes", outcome >> ELSE <<>>)
    /\ wpc' = "rx"
    /\ UNCHANGED <<ctrl, mPosition, mInputQueue,
                   emitHist, updHist, postLatchFrames, syncPolls, txCount, fn,
                   errorOpening, console, mThreadRunning, rxBytes, closed,
                   mainPc, hook>>

\* if (mOutputQueue.try_dequeue(oentry)) mSerialPort.writeBytes(...)
WorkerTx(outcome) ==
    /\ wpc = "tx"
    /\ outcome \in WriteOutcomes
    /\ \E d \in { try_dequeue(mOutputQueue) } :
         /\ mOutputQueue' = d.rest
         /\ wire' = IF d.ok /\ outcome = "ok" THEN Append(wire, d.item[1]) ELSE wire
         /\ lastCall' = Call("Start", "tx", <<>>, <<>>, d.ok, <<>>, <<>>,
                             d.item, <<>>,
                             IF d.ok THEN << "writeBytes", outcome >> ELSE <<>>)
    /\ wpc' = "rx"
    /\ UNCHANGED <<ctrl, mPosition, mInputQueue,
                   emitHist, updHist, postLatchFrames, syncPolls, txCount, fn,
                   errorOpening, console, mThreadRunning, rxBytes, closed,
                   mainPc, hook>>

ReadDue_AtLeast(avail) == avail >= SIZEOF_INPUT_ENTRY

\* mSerialPort.available() > sizeof(input_entry)
ReadDue(avail) == avail > SIZEOF_INPUT_ENTRY

\* if (available() > sizeof(input_entry)) { readBytes(...); enqueue(ientry); }
\* followed by the sleep; fid is the frame id found in ientry afterwards
WorkerRx(avail, outcome, fid) ==
    /\ wpc = "rx"
    /\ avail \in Available
    /\ IF ReadDue(avail)
       THEN /\ outcome \in ReadOutcomes
            /\ fid \in (IF outcome = "ok" THEN RxFids ELSE GarbageFids)
            /\ outcome = "error"
                  => Len(mInputQueue) + PendingReads(rxBytes) < MaxSerRx
            /\ mInputQueue' = enqueue(mInputQueue, fid)
            /\ rxBytes' = IF outcome = "ok" THEN rxBytes - SIZEOF_INPUT_ENTRY
                          ELSE rxBytes
            /\ lastCall' = Call("Start", "rx", <<>>, <<>>, outcome = "ok", <<>>,
                                <<>>, <<>>, << fid >>, << "readBytes", outcome >>)
       ELSE /\ outcome = "ok"
            /\ fid = 0
            /\ lastCall' = Call("Start", "rx", <<>>, <<>>, TRUE, <<>>, <<>>,
                                <<>>, <<>>, <<>>)
            /\ UNCHANGED <<mInputQueue, rxBytes>>
    /\ wpc' = "loop"
    /\ UNCHANGED <<ctrl, mPosition, mOutputQueue,
                   emitHist, updHist, postLatchFrames, syncPolls, txCount, fn,
                   errorOpening, console, mThreadRunning, wire, closed,
                   mainPc, hook>>

\* the device sends n more bytes of telemetry
DeviceSend(n) ==
    /\ PortOpen
    /\ rxBytes + n <= MaxRxBytes
    /\ Len(mInputQueue) + PendingReads(rxBytes + n) <= MaxSerRx
    /\ rxBytes' = rxBytes + n
    /\ lastCall' = Call("Device", "-", <<>>, <<>>, TRUE, <<>>, <<>>, <<>>, <<>>, <<>>)
    /\ UNCHANGED <<ctrl, mPosition, mOutputQueue, mInputQueue,
                   emitHist, updHist, postLatchFrames, syncPolls, txCount, fn,
                   errorOpening, console, mThreadRunning, wpc, wire, closed,
                   mainPc, hook>>

\* main: pFrameGrbbr->StopGrabFrames(); pLightCntrl->SetMode(MODE::OFF);
Cleanup ==
    /\ mainPc = "run"
    /\ SetMode("OFF")
    /\ mainPc' = "stop"
    /\ UNCHANGED hookPc

\* delete pLightCntrl: ThreadedSerial::Stop up to the join
Stop ==
    /\ mainPc = "stop"
    /\ mThreadRunning' = FALSE
    /\ mainPc' = "join"
    /\ lastCall' = Call("Stop", "-", <<>>, <<>>, TRUE, <<>>, <<>>, <<>>, <<>>, <<>>)
    /\ UNCHANGED <<ctrl, mPosition, mOutputQueue, mInputQueue,
                   emitHist, updHist, postLatchFrames, syncPolls, txCount, fn,
                   errorOpening, console, wpc, wire, rxBytes, closed, hook>>

\* ThreadedSerial::Stop: mThread.join() returns, closeDevice()
StopJoin ==
    /\ mainPc = "join"
    /\ wpc = "exited"
    /\ closed' = TRUE
    /\ mainPc' = "done"
    /\ lastCall' = Call("Stop", "closeDevice", <<>>, <<>>, TRUE, <<>>, <<>>,
                        <<>>, <<>>, <<>>)
    /\ UNCHANGED <<ctrl, mPosition, mOutputQueue, mInputQueue,
                   emitHist, updHist, postLatchFrames, syncPolls, txCount, fn,
                   errorOpening, console, mThreadRunning, wpc, wire, rxBytes, hook>>

InitSerial ==
    /\ InitCtrl
    /\ \E res \in OpenResults : SerialCtor(res)
    /\ InitHook
    /\ fnArgs = <<>>
    /\ fnResult = <<>>

NextSerial ==
    \/ \E mode \in SerModes :
         mainPc = "run" /\ SetMode(mode) /\ UNCHANGED <<mainPc, hookPc>>
    \/ \E odd \in SerMeans, even \in SerMeans :
         \E oob \in (IF mMode = "MULTI" THEN OobWeights ELSE { <<0, 1>> }) :
            /\ mainPc = "run"
            /\ mFid < MaxSerFid
            /\ Len(mOutputQueue) < MaxSerTx
            /\ WithinOffset(ToFloats(odd))
            /\ IncrementPrgrm(ToFloats(odd), ToFloats(even), oob)
            /\ UNCHANGED hookPc
    \/ WorkerLoop
    \/ \E outcome \in { "ok", "error" } : WorkerTx(outcome)
    \/ \E avail \in 0 .. MaxRxBytes, outcome \in { "ok", "error" },
          fid \in RxFids \cup GarbageFids : WorkerRx(avail, outcome, fid)
    \/ \E n \in RxChunks : DeviceSend(n)
    \/ Cleanup
    \/ Stop
    \/ StopJoin

SpecSerial == InitSerial /\ [][NextSerial]_vars

\* the serial link up to its destruction: frames in the mode set at
\* construction, then the exit of the main loop
NextStop ==
    \/ \E odd \in SerMeans, even \in SerMeans :
         /\ mainPc = "run"
         /\ mFid < MaxStopFid
         /\ Len(mOutputQueue) < MaxSerTx
         /\ WithinOffset(ToFloats(odd))
         /\ IncrementPrgrm(ToFloats(odd), ToFloats(even), <<0, 1>>)
         /\ UNCHANGED hookPc
    \/ WorkerLoop
    \/ \E outcome \in { "ok", "error" } : WorkerTx(outcome)
    \/ \E avail \in 0 .. MaxRxBytes, outcome \in { "ok", "error" },
          fid \in RxFids \cup GarbageFids : WorkerRx(avail, outcome, fid)
    \/ \E n \in RxChunks : DeviceSend(n)
    \/ Cleanup
    \/ Stop
    \/ StopJoin

\* the worker thread keeps being scheduled, and the main thread, once it
\* destroys the link, runs Stop and returns from join when the worker has
\* exited
SpecStop ==
    /\ InitSerial
    /\ [][NextStop]_vars
    /\ WF_vars(WorkerLoop)
    /\ WF_vars(\E outcome \in { "ok", "error" } : WorkerTx(outcome))
    /\ WF_vars(\E avail \in 0 .. MaxRxBytes, outcome \in { "ok", "error" },
                  fid \in RxFids \cup GarbageFids : WorkerRx(avail, outcome, fid))
    /\ WF_vars(Stop)
    /\ WF_vars(StopJoin)

(***************************************************************************)
(* The modes entered after the synchronisation: the state in which the     *)
(* search of IncrementPrgrm has latched the flag with buffer offset B (one *)
(* flash and B / 2 further calls, all commands written to the port), one   *)
(* SetMode, and the frames that follow                                     *)
(***************************************************************************)
Synced(B) ==
    /\ mMode = "SYNC"
    /\ mPrgrm = off_prgrm
    /\ mPrgrmCount = B + 2
    /\ mBufferOffset = B
    /\ mFid = (B \div 2) + 1
    /\ mPwrBuffer = <<>>
    /\ mFrmBuffer = <<>>
    /\ mRotBuffer = <<>>
    /\ mSynced = TRUE
    /\ mPosition = Power2RotnAngle(<<1, 10>>)
    /\ mOutputQueue = <<>>
    /\ mInputQueue = <<>>
    /\ lastCall = Call("Start", "-", <<>>, <<>>, TRUE, <<>>, <<>>,
                       << [fid |-> B \div 2, pws |-> ZeroPws] >>, <<>>, <<>>)
    /\ emitHist = <<>>
    /\ updHist = <<>>
    /\ postLatchFrames = 0
    /\ syncPolls = B \div 2
    /\ txCount = (B \div 2) + 1

InitSynced ==
    /\ \E B \in SyncedOffsets : Synced(B)
    /\ SerialCtor(1)
    /\ InitHook
    /\ fnArgs = <<>>
    /\ fnResult = <<>>

NextSynced ==
    \/ \E mode \in SyncedModes :
         mMode = "SYNC" /\ SetMode(mode) /\ UNCHANGED <<mainPc, hookPc>>
    \/ \E odd \in Means, even \in Means :
         \E oob \in (IF mMode = "MULTI" THEN OobWeights ELSE { <<0, 1>> }) :
            /\ mMode # "SYNC"
            /\ mPrgrmCount < 2 * MaxSyncedFrames
            /\ IncrementPrgrm(ToFloats(odd), ToFloats(even), oob)
            /\ UNCHANGED hookPc

SpecSynced == InitSynced /\ [][NextSynced]_vars

(***************************************************************************)
(* WLE driven in closed loop: the means of a field are those of a linear   *)
(* plant, 4 times the power emitted buffer_offset fields earlier,          *)
(* saturating at 255                                                       *)
(***************************************************************************)
\* the means of the field with counter c (0 before the first emission of the
\* mode is observed)
PlantObs(c) ==
    LET i == c - mBufferOffset + 1
        y == IF i >= 1 /\ i <= Len(emitHist)
             THEN RMul(R(4), emitHist[i]) ELSE R(0)
        v == IF RGt(y, R(MAX_IMG_INTENSITY)) THEN R(MAX_IMG_INTENSITY) ELSE y
    IN  << v, v, v >>

PlantFrame ==
    /\ mMode = "WLE"
    /\ mPrgrmCount < 2 * MaxPlantFrames
    /\ IncrementPrgrm(PlantObs(mPrgrmCount), PlantObs(mPrgrmCount + 1), <<0, 1>>)
    /\ UNCHANGED hookPc

InitPlant ==
    /\ \E B \in PlantOffsets : Synced(B)
    /\ SerialCtor(1)
    /\ InitHook
    /\ fnArgs = <<>>
    /\ fnResult = <<>>

NextPlant ==
    \/ mMode = "SYNC" /\ SetMode("WLE") /\ UNCHANGED <<mainPc, hookPc>>
    \/ PlantFrame
    \/ WorkerSend
    \/ \E fid \in RxFids : WorkerReceive(fid)

SpecPlant == InitPlant /\ [][NextPlant]_vars

(***************************************************************************)
(* The frame id after a long run: the controller has processed f frames,   *)
(* the worker has sent their records and the mode has been set to OFF      *)
(* again; the histories restart there.                                     *)
(***************************************************************************)
\* frame counts two frames before the counter passes 2^31 and three frames
\* before it passes 2^32
FidStarts == { INT_MAX - 1, -3 }

WrapModes == { "OFF", "WARMUP", "SYNC" }

AfterFrames(f) ==
    /\ mMode = "OFF"
    /\ mPrgrm = off_prgrm
    /\ mPrgrmCount = 0
    /\ mBufferOffset = 0
    /\ mFid = f
    /\ mPwrBuffer = <<>>
    /\ mFrmBuffer = <<>>
    /\ mRotBuffer = <<>>
    /\ mSynced = FALSE
    /\ mPosition = Power2RotnAngle(<<1, 10>>)
    /\ mOutputQueue = <<>>
    /\ mInputQueue = <<>>
    /\ lastCall = Call("SetMode", "OFF", <<>>, <<>>, TRUE, <<>>, <<>>, <<>>, <<>>,
                       << "MODE" >>)
    /\ emitHist = <<>>
    /\ updHist = <<>>
    /\ postLatchFrames = 0
    /\ syncPolls = 0
    /\ txCount = 0

InitWrap ==
    /\ \E f \in FidStarts : AfterFrames(f)
    /\ SerialCtor(1)
    /\ InitHook
    /\ fnArgs = <<>>
    /\ fnResult = <<>>

NextWrap ==
    \/ \E mode \in WrapModes : SetMode(mode) /\ UNCHANGED <<mainPc, hookPc>>
    \/ \E odd \in Means, even \in Means :
         /\ txCount < MaxWrapFrames
         /\ Len(mOutputQueue) < MaxTx
         /\ WithinOffset(ToFloats(odd))
         /\ IncrementPrgrm(ToFloats(odd), ToFloats(even), <<0, 1>>)
         /\ UNCHANGED hookPc
    \/ WorkerSend

SpecWrap == InitWrap /\ [][NextWrap]_vars

(***************************************************************************)
(* The two threads that call the controller: main (the CLI loop, which     *)
(* stores the chosen mode in hookData and calls SetMode) and the frame     *)
(* grabber, which runs PerFrameHookFunction.  SetMode on the main thread   *)
(* is followed statement by statement; nothing orders it with the hook.    *)
(***************************************************************************)
\* main: switch (cmd) { case ...: hookData.mCurrMode = ...; }
MainCmd(mode) ==
    /\ mainPc = "run"
    /\ mCurrMode' = mode
    /\ mainPc' = "call"
    /\ lastCall' = Call("main", mode, <<>>, <<>>, TRUE, <<>>, <<>>, <<>>, <<>>, <<>>)
    /\ UNCHANGED <<ctrl, mPosition, mOutputQueue, mInputQueue,
                   emitHist, updHist, postLatchFrames, syncPolls, txCount, fn, ser, hookPc>>

\* main: pLightCntrl->SetMode(hookData.mCurrMode), up to mMode = mode
MainSetModeEnter ==
    /\ mainPc = "call"
    /\ IF ~SetModeAllowed(mCurrMode, mSynced)
       THEN /\ mainPc' = "run"
            /\ lastCall' = Call("SetMode", mCurrMode, <<>>, <<>>, FALSE, <<>>, <<>>,
                                <<>>, <<>>, <<>>)
            /\ UNCHANGED <<ctrl, mPosition>>
       ELSE /\ mPosition' = IF mCurrMode = "SSFDI"
                            THEN Power2RotnAngle(<<1, 1>>) ELSE mPosition
            /\ mMode' = mCurrMode
            /\ mainPc' = "prgrm"
            /\ lastCall' = Call("SetMode", mCurrMode, <<>>, <<>>, TRUE, <<>>,
                                IF mCurrMode = "SSFDI"
                                THEN << Power2RotnAngle(<<1, 1>>) >> ELSE <<>>,
                                <<>>, <<>>, << "MODE" >>)
            /\ UNCHANGED <<mPrgrm, mPrgrmCount, mBufferOffset, mFid,
                           mPwrBuffer, mFrmBuffer, mRotBuffer, mSynced>>
    /\ UNCHANGED <<mOutputQueue, mInputQueue,
                   emitHist, updHist, postLatchFrames, syncPolls, txCount, fn, ser, hook>>

\* SetMode on the main thread: the SYNC branch, or the switch on mMode
MainSetModePrgrm ==
    /\ mainPc = "prgrm"
    /\ IF mCurrMode = "SYNC"
       THEN /\ mBufferOffset' = 0
            /\ mPrgrm' = off_prgrm
            /\ mSynced' = FALSE
            /\ postLatchFrames' = 0
            /\ syncPolls' = 0
            /\ mainPc' = "count"
       ELSE /\ mPrgrm' = PrgrmOf(mMode)
            /\ mainPc' = "drain"
            /\ UNCHANGED <<mBufferOffset, mSynced, postLatchFrames, syncPolls>>
    /\ UNCHANGED <<mMode, mPrgrmCount, mFid, mPwrBuffer, mFrmBuffer, mRotBuffer,
                   mPosition, mOutputQueue, mInputQueue,
                   lastCall, emitHist, updHist, txCount, fn, ser, hook>>

\* SetMode on the main thread: the three while (try_dequeue) loops
MainSetModeDrain ==
    /\ mainPc = "drain"
    /\ mPwrBuffer' = <<>>
    /\ mRotBuffer' = <<>>
    /\ mFrmBuffer' = <<>>
    /\ mainPc' = "count"
    /\ UNCHANGED <<mMode, mPrgrm, mPrgrmCount, mBufferOffset, mFid, mSynced,
                   mPosition, mOutputQueue, mInputQueue, hist, fn, ser, hook>>

\* SetMode on the main thread: mPrgrmCount = 0
MainSetModeCount ==
    /\ mainPc = "count"
    /\ mPrgrmCount' = 0
    /\ emitHist' = <<>>
    /\ updHist' = <<>>
    /\ mainPc' = "run"
    /\ UNCHANGED <<mMode, mPrgrm, mBufferOffset, mFid, mPwrBuffer, mFrmBuffer,
                   mRotBuffer, mSynced, mPosition, mOutputQueue, mInputQueue,
                   lastCall, postLatchFrames, syncPolls, txCount, fn, ser, hook>>

\* PerFrameHookFunction: if (GetMode() != mCurrMode) SetMode(mCurrMode)
HookGrab ==
    /\ hookPc = "grab"
    /\ mFid < MaxRaceFid
    /\ IF mMode # mCurrMode
       THEN SetMode(mCurrMode)
       ELSE UNCHANGED <<ctrl, mPosition, mOutputQueue, mInputQueue, hist, fn, ser,
                        mCurrMode>>
    /\ hookPc' = "incr"
    /\ UNCHANGED mainPc

\* PerFrameHookFunction: IncrementPrgrm(oddChnlMeans, evenChnlMeans)
HookIncrement(odd, even) ==
    /\ hookPc = "incr"
    /\ IncrementPrgrm(ToFloats(odd), ToFloats(even), <<0, 1>>)
    /\ hookPc' = "grab"

NextRace ==
    \/ \E mode \in RaceModes : MainCmd(mode)
    \/ MainSetModeEnter
    \/ MainSetModePrgrm
    \/ MainSetModeDrain
    \/ MainSetModeCount
    \/ HookGrab
    \/ \E odd \in RaceMeans, even \in RaceMeans : HookIncrement(odd, even)

SpecRace == Init /\ [][NextRace]_vars

(***************************************************************************)
(* Properties                                                              *)
(***************************************************************************)
IsFrame == lastCall.op = "IncrementPrgrm"
IsFrameStep == lastCall'.op = "IncrementPrgrm" /\ mFid' # mFid
GatedModes == {"WLE", "PSE", "LSCI", "MULTI", "SSFDI"}
FeedbackModes == {"WLE", "PSE", "LSCI", "MULTI", "SSFDI", "OFF"}
Channels == 0 .. (2 * NO_LASER_DIODES - 1)
Bright == ToFloats(<<1, 128, 255>>)
Dark == ToFloats(<<0, 0, 0>>)

\* C1: SetMode(m) for m in {WLE, PSE, LSCI, MULTI, SSFDI} called while the
\* sync flag is false changes neither the mode, the program, the counter, the
\* buffer offset, the sync flag, the frame id nor the three feedback queues,
\* and issues no rotation mount command.
C1_GatedSetModeIgnored ==
    [][ (/\ lastCall'.op = "SetMode"
         /\ lastCall'.mode \in GatedModes
         /\ ~mSynced)
        => /\ UNCHANGED <<mMode, mPrgrm, mPrgrmCount, mBufferOffset, mSynced,
                          mFid, mPwrBuffer, mFrmBuffer, mRotBuffer>>
           /\ mPosition' = mPosition
           /\ lastCall'.moves = <<>> ]_vars

C1_Witness ==
    /\ lastCall.op = "SetMode"
    /\ lastCall.mode = "SSFDI"
    /\ ~mSynced
    /\ mMode = "SYNC"
    /\ mBufferOffset = 2

\* C2: every call of IncrementPrgrm, in every mode and sync state, enqueues
\* exactly one outbound record, and the k-th per-frame record (k = 0, 1, ...)
\* carries frame id k.
C2_OneRecordPerFrame ==
    [][ IsFrameStep
        => /\ Len(lastCall'.cmds) = 1
           /\ mOutputQueue' = Append(mOutputQueue, lastCall'.cmds[1])
           /\ lastCall'.cmds[1].fid = txCount
           /\ txCount' = txCount + 1 ]_vars

C2_Witness ==
    /\ IsFrame
    /\ lastCall.mode = "WARMUP"
    /\ ~mSynced
    /\ lastCall.cmds[1].fid = 2
    /\ txCount = 3

\* C3: each of the 30 pulse widths of every per-frame command lies in
\* [0, PW_MAX].
C3_PwsInRange ==
    IsFrame => \A n \in Channels :
                  /\ lastCall.cmds[1].pws[n] >= 0
                  /\ lastCall.cmds[1].pws[n] <= PW_MAX

\* C4: for every observed intensity in [0, 255] and every prior power in
\* [0, 1] the feedback result ClampPwr(UpdatePower(y, p)) lies in
\* [PWR_MIN, 0.999].
C4_FeedbackRange ==
    fnResult # <<>> => /\ RLe(PWR_MIN, fnResult[1])
                       /\ RLe(fnResult[1], PWR_FB_CAP)

C4_Witness ==
    /\ fnResult = << PWR_MIN >>
    /\ fnArgs[2] = <<0, 1>>
    /\ fnArgs[1] = R(MAX_IMG_INTENSITY)

C6_NoUnderflow ==
    (IsFrame /\ mSynced /\ 2 * (postLatchFrames - 1) >= mBufferOffset)
        => \A i \in 1 .. Len(lastCall.fields) :
              lastCall.fields[i].observed => lastCall.fields[i].deqOk

C6_Witness ==
    /\ IsFrame
    /\ mSynced
    /\ 2 * (postLatchFrames - 1) >= mBufferOffset
    /\ lastCall.mode = "PSE"
    /\ Len(lastCall.fields) = 2
    /\ lastCall.fields[1].observed
    /\ lastCall.fields[1].deqOk

\* C7: in a feedback mode entered after sync, for every field with counter
\* c >= buffer_offset the prior power dequeued is the power emitted at field
\* c - buffer_offset and the channel is that of step (c - buffer_offset) mod L;
\* fields with c < buffer_offset dequeue nothing, and the queue holds the
\* powers emitted and not yet paired, in order.
C7_Pairing ==
    (IsFrame /\ mSynced /\ lastCall.mode \in FeedbackModes)
        => /\ Len(emitHist) = mPrgrmCount
           /\ \A i \in 1 .. Len(lastCall.fields) :
                LET r == lastCall.fields[i]
                    c == r.count
                IN  /\ r.observed <=> c >= mBufferOffset
                    /\ c >= mBufferOffset =>
                         /\ r.deqOk
                         /\ r.prevPwr = emitHist[c - mBufferOffset + 1]
                         /\ r.chnl = mPrgrm[((c - mBufferOffset) % Len(mPrgrm)) + 1].second
           /\ mPwrBuffer = SubSeq(emitHist,
                                  IF mPrgrmCount > mBufferOffset
                                  THEN mPrgrmCount - mBufferOffset + 1 ELSE 1,
                                  mPrgrmCount)

C7_Witness ==
    /\ IsFrame
    /\ mSynced
    /\ lastCall.mode = "WLE"
    /\ lastCall.fields[1].count = mBufferOffset
    /\ lastCall.fields[1].deqOk
    /\ Len(mPwrBuffer) = 2
    /\ mPwrBuffer[1] # mPwrBuffer[2]

\* C8: the first IncrementPrgrm call after SetMode(SYNC), for any means, emits
\* PW_MAX at indices 0..14 and 0 at indices 15..29, sets buffer_offset to 2,
\* advances the counter by 2 and leaves the sync flag false.
C8_SyncFlash ==
    [][ (IsFrameStep /\ mMode = "SYNC" /\ mPrgrmCount = 0)
        => /\ \A n \in Channels :
                lastCall'.cmds[1].pws[n] = IF n < NO_LASER_DIODES THEN PW_MAX ELSE 0
           /\ mBufferOffset' = 2
           /\ mPrgrmCount' = mPrgrmCount + 2
           /\ ~mSynced' ]_vars

C8_Witness ==
    /\ IsFrame
    /\ lastCall.mode = "SYNC"
    /\ lastCall.odd = Bright
    /\ mPrgrmCount = 2
    /\ mBufferOffset = 2
    /\ ~mSynced
    /\ lastCall.cmds[1].pws[0] = PW_MAX

\* C9: after the flash, a call of the sync search with odd-field mean <= 40
\* adds 2 to buffer_offset and leaves the flag false; the j-th call, the first
\* with mean > 40, sets the flag with buffer_offset = 2 * j; from then on
\* every operation other than SetMode(SYNC) keeps the flag and buffer_offset.
C9_SyncSearch ==
    [][ /\ (IsFrameStep /\ mMode = "SYNC" /\ ~mSynced /\ mPrgrmCount # 0)
           => IF lastCall'.odd[1][1] + lastCall'.odd[2][1] + lastCall'.odd[3][1]
                   > 3 * SYNC_THRESHOLD
              THEN /\ mSynced'
                   /\ mBufferOffset' = mBufferOffset
                   /\ mBufferOffset' = 2 * syncPolls'
              ELSE /\ ~mSynced'
                   /\ mBufferOffset' = mBufferOffset + 2
        /\ (mSynced /\ ~(lastCall'.op = "SetMode" /\ lastCall'.mode = "SYNC"))
           => /\ mSynced'
              /\ mBufferOffset' = mBufferOffset ]_vars

C9_Witness ==
    /\ IsFrame
    /\ lastCall.mode = "SYNC"
    /\ lastCall.fields = <<>>
    /\ mSynced
    /\ syncPolls = 2
    /\ mBufferOffset = 4

C11_OffEmitsZero ==
    (IsFrame /\ lastCall.mode = "OFF")
        => \A n \in Channels : lastCall.cmds[1].pws[n] = 0

C11_Witness ==
    /\ IsFrame
    /\ lastCall.mode = "OFF"
    /\ lastCall.odd = Bright
    /\ lastCall.fields[1].observed
    /\ ~lastCall.fields[1].deqOk
    /\ lastCall.fields[1].newPwr = PWR_MIN
    /\ lastCall.cmds[1].pws[0] = 0

\* C12: in a feedback mode entered after sync, with buffer offset B and
\* program length L, every field whose counter is below L * ceil(B / L) emits
\* PWR_START whatever the means are (each enabled diode gets the pulse width
\* of 0.2 times its weight); in WLE with B = 2 the first command has pulse
\* width 2800 for diode 0 and 2380 for diode 1 on both fields and 0 for
\* diodes 9..14.
C12_Bootstrap ==
    (IsFrame /\ mSynced /\ lastCall.mode \in GatedModes)
        => LET L   == Len(mPrgrm)
               T   == L * ((mBufferOffset + L - 1) \div L)
               pws == lastCall.cmds[1].pws
           IN  /\ \A i \in 1 .. Len(lastCall.fields) :
                    LET r  == lastCall.fields[i]
                        ws == mPrgrm[r.prgrmIdx + 1].first
                    IN  r.count < T
                          => /\ r.newPwr = PWR_START
                             /\ \A n \in 0 .. (NO_LASER_DIODES - 1) :
                                  LET k == (i - 1) * NO_LASER_DIODES + n
                                  IN  (/\ n + 1 <= Len(ws)
                                       /\ ws[n + 1][1] > 0
                                       /\ ~(lastCall.mode = "LSCI" /\ k = 29))
                                        => pws[k] = (PW_MAX * ws[n + 1][1])
                                                      \div (5 * ws[n + 1][2])
               /\ (lastCall.mode = "WLE" /\ mBufferOffset = 2 /\ mPrgrmCount = 2)
                    => /\ pws[0] = 2800 /\ pws[15] = 2800
                       /\ pws[1] = 2380 /\ pws[16] = 2380
                       /\ \A n \in 9 .. 14 :
                            pws[n] = 0 /\ pws[NO_LASER_DIODES + n] = 0

C12_Witness ==
    /\ IsFrame
    /\ mSynced
    /\ lastCall.mode = "PSE"
    /\ mBufferOffset = 2
    /\ lastCall.odd = Dark
    /\ lastCall.fields[1].count = 2
    /\ lastCall.fields[1].observed
    /\ ~lastCall.fields[1].useFb
    /\ lastCall.fields[1].newPwr = PWR_START
    /\ lastCall.cmds[1].pws[6] = 2380

\* C13 as stated: when the observed intensity equals TARGET the feedback
\* update returns the prior power unchanged, for every prior power (PWR_START,
\* an earlier feedback result, PWR_MAX and the underflow value 0).
C13_TargetIdentity ==
    (fnResult # <<>> /\ fnArgs[1] = R(TARGET_IMG_INTENSITY))
        => fnResult[1] = fnArgs[2]

\* C13 amended: when the observed intensity equals TARGET the feedback update
\* returns the prior power unchanged for every prior power in [PWR_MIN, 0.999];
\* the underflow value 0 (any prior below PWR_MIN) gives PWR_MIN and PWR_MAX
\* (any prior above 0.999) gives 0.999.
C13_TargetClamped ==
    (fnResult # <<>> /\ fnArgs[1] = R(TARGET_IMG_INTENSITY))
        => fnResult[1] = IF RLt(fnArgs[2], PWR_MIN) THEN PWR_MIN
                         ELSE IF RGt(fnArgs[2], PWR_FB_CAP) THEN PWR_FB_CAP
                         ELSE fnArgs[2]

C13_Witness ==
    /\ fnArgs = << R(TARGET_IMG_INTENSITY), PWR_START >>
    /\ fnResult = << PWR_START >>

\* C14 as stated: after every accepted SetMode call, whatever the target mode
\* (SYNC included), the three feedback queues are empty.
C14_QueuesEmptyAfterSetMode ==
    (lastCall.op = "SetMode" /\ lastCall.accepted)
        => mPwrBuffer = <<>> /\ mFrmBuffer = <<>> /\ mRotBuffer = <<>>

\* C14 amended: after every accepted SetMode call to a mode other than SYNC the
\* three feedback queues are empty; an accepted SetMode(SYNC) leaves the three
\* queues as they were.
C14_QueuesAfterSetMode ==
    [][ (lastCall'.op = "SetMode" /\ lastCall'.accepted)
        => IF lastCall'.mode = "SYNC"
           THEN UNCHANGED <<mPwrBuffer, mFrmBuffer, mRotBuffer>>
           ELSE mPwrBuffer' = <<>> /\ mFrmBuffer' = <<>> /\ mRotBuffer' = <<>> ]_vars

C14_Witness ==
    /\ lastCall.op = "SetMode"
    /\ lastCall.accepted
    /\ lastCall.mode = "SYNC"
    /\ Len(mPwrBuffer) = 2
    /\ mPrgrmCount = 0

\* C15: SetMode(m) for m other than SYNC leaves buffer_offset and the sync flag
\* unchanged; no SetMode call changes the outbound frame id; SetMode(SYNC)
\* resets buffer_offset to 0 and clears the flag, and no other operation
\* lowers buffer_offset or clears the flag.
C15_SetModeFrame ==
    [][ /\ (lastCall'.op = "SetMode")
           => /\ mFid' = mFid
              /\ txCount' = txCount
              /\ lastCall'.mode # "SYNC"
                   => UNCHANGED <<mBufferOffset, mSynced>>
              /\ (lastCall'.mode = "SYNC" /\ lastCall'.accepted)
                   => mBufferOffset' = 0 /\ ~mSynced'
        /\ (mBufferOffset' < mBufferOffset \/ (mSynced /\ ~mSynced'))
           => lastCall'.op = "SetMode" /\ lastCall'.mode = "SYNC" ]_vars

C15_Witness ==
    /\ lastCall.op = "SetMode"
    /\ lastCall.accepted
    /\ lastCall.mode = "PSE"
    /\ mSynced
    /\ mBufferOffset = 4
    /\ mFid = 3
    /\ mPrgrmCount = 0

\* number of fields of a frame record that satisfy a test
CountFields(fields, Test(_)) == Len(SelectSeq(fields, Test))

\* C20: a per-frame step that drains a telemetry record with frame id -2 logs
\* one ERR record and no PDV record, after the command of the frame has been
\* enqueued and logged; it removes that record from the inbound queue, adds 1
\* to the frame id, keeps the mode and the program, adds 2 to the counter, and
\* buffer offset, sync flag and feedback queues evolve from the means alone,
\* as in a step that drained nothing.
C20_ErrRecord ==
    [][ (IsFrameStep /\ mInputQueue # <<>> /\ Head(mInputQueue) = FID_ERROR)
        => LET c    == lastCall'
               n    == Len(c.log)
               deqs == CountFields(c.fields, LAMBDA r : r.observed /\ r.deqOk)
               obs  == CountFields(c.fields, LAMBDA r : r.observed)
               fbs  == CountFields(c.fields, LAMBDA r : r.useFb /\ r.frmOk)
               srch == mMode = "SYNC" /\ ~mSynced
           IN  /\ c.rx = << FID_ERROR >>
               /\ mInputQueue' = Tail(mInputQueue)
               /\ n >= 2 /\ c.log[n] = "ERR" /\ c.log[n - 1] = "PWS"
               /\ \A i \in 1 .. n : c.log[i] # "PDV"
               /\ \A i \in 1 .. (n - 1) : c.log[i] # "ERR"
               /\ c.cmds[1].fid = mFid
               /\ mOutputQueue' = Append(mOutputQueue, c.cmds[1])
               /\ mFid' = mFid + 1
               /\ UNCHANGED <<mMode, mPrgrm>>
               /\ mPrgrmCount' = mPrgrmCount + 2
               /\ ~srch => UNCHANGED <<mBufferOffset, mSynced>>
               /\ srch => /\ mSynced' = (mBufferOffset # 0 /\ c.odd = Bright)
                          /\ mBufferOffset' = IF mSynced' THEN mBufferOffset
                                              ELSE mBufferOffset + 2
               /\ LET all == mPwrBuffer
                                \o [i \in 1 .. Len(c.fields) |-> c.fields[i].newPwr]
                  IN  mPwrBuffer' = SubSeq(all, deqs + 1, Len(all))
               /\ Len(mFrmBuffer') = Len(mFrmBuffer) + obs - fbs
               /\ mMode # "LSCI" => mRotBuffer' = mRotBuffer ]_vars

C20_Witness ==
    /\ IsFrame
    /\ lastCall.rx = << FID_ERROR >>
    /\ lastCall.mode = "WLE"
    /\ lastCall.log[Len(lastCall.log)] = "ERR"
    /\ mInputQueue = <<>>
    /\ mFid = 4
    /\ Len(mPwrBuffer) = 2

Fids(seq) == [i \in 1 .. Len(seq) |-> seq[i].fid]
AllZero(pws) == \A n \in Channels : pws[n] = 0

C17_LastCommandZero ==
    (closed /\ wire # <<>>) => AllZero(wire[Len(wire)].pws)

\* C18: when the read of an inbound record fails, the worker appends no record
\* to the inbound queue on that pass.
C18_FailedReadNotEnqueued ==
    (lastCall.op = "Start" /\ lastCall.mode = "rx"
       /\ lastCall.log = << "readBytes", "error" >>)
        => lastCall.rx = <<>>

\* C19: when openDevice returns a negative code the constructor writes the
\* 'Device not found' message and not the 'Device found' message, and the
\* records the worker takes from the outbound queue are dropped: none reaches
\* the port.
C19_OpenFailureReported ==
    errorOpening < 0
        => /\ \E i \in 1 .. Len(console) : console[i] = "Device not found"
           /\ \A i \in 1 .. Len(console) : console[i] # "Device found"
           /\ wire = <<>>

\* C21: a per-frame step appends its command to the outbound queue and logs
\* it before it polls the inbound queue, and it removes at most one telemetry
\* record from the inbound queue, the one at the front, however many are
\* pending.
C21_TxThenOneRx ==
    [][ IsFrameStep
        => LET c == lastCall'
               n == Len(c.log)
           IN  /\ mOutputQueue' = Append(mOutputQueue, c.cmds[1])
               /\ IF mInputQueue = <<>>
                  THEN /\ mInputQueue' = <<>>
                       /\ c.rx = <<>>
                       /\ c.log[n] = "PWS"
                  ELSE /\ mInputQueue' = Tail(mInputQueue)
                       /\ c.rx = << Head(mInputQueue) >>
                       /\ c.log[n - 1] = "PWS"
                       /\ c.log[n] \in { "PDV", "ERR" } ]_vars

C21_Witness ==
    /\ IsFrame
    /\ lastCall.rx = << 0 >>
    /\ lastCall.log[Len(lastCall.log)] = "PDV"
    /\ Len(mInputQueue) = 1
    /\ Len(mOutputQueue) = 2

\* C22: in LSCI mode, once the counter has passed the buffer offset (the
\* bootstrap 0.2 is over), the rotation power of a frame is
\* ClampPwr(UpdatePower(even-field red mean, p)) for the rotation power p
\* commanded earlier and dequeued from rotation_power, and the mount is moved
\* to the angle of that power.
C22_RotnFeedback ==
    [][ (IsFrameStep /\ mMode = "LSCI" /\ mPrgrmCount' > mBufferOffset)
        => /\ mRotBuffer # <<>>
           /\ mRotBuffer' = Append(Tail(mRotBuffer),
                                   ClampPwr(UpdatePower(lastCall'.even[3],
                                                        Head(mRotBuffer))))
           /\ mPosition' = Power2RotnAngle(mRotBuffer'[Len(mRotBuffer')]) ]_vars

\* C23: every angle passed to SetPosition lies in [265, 310] degrees and is
\* 45 * power + 265 for a power in [0, 1]: 0.1 at construction, 1.0 on
\* entering SSFDI and the rotation power of the frame in LSCI; the last angle
\* commanded is in that range in every state.
C23_AngleRange ==
    /\ RLe(R(265), mPosition) /\ RLe(mPosition, R(310))
    /\ \A i \in 1 .. Len(lastCall.moves) :
          LET a  == lastCall.moves[i]
              pw == RDiv(RSub(a, R(265)), R(45))
          IN  /\ a = mPosition
              /\ RLe(R(0), pw) /\ RLe(pw, R(1))
              /\ lastCall.op = "LightController" => pw = <<1, 10>>
              /\ lastCall.op = "SetMode" => lastCall.mode = "SSFDI" /\ pw = <<1, 1>>
              /\ lastCall.op = "IncrementPrgrm"
                    => /\ lastCall.mode = "LSCI"
                       /\ pw = mRotBuffer[Len(mRotBuffer)]
    /\ (IsFrame /\ lastCall.mode = "LSCI") => Len(lastCall.moves) = 1
    /\ (lastCall.op = "SetMode" /\ lastCall.accepted /\ lastCall.mode = "SSFDI")
          => Len(lastCall.moves) = 1

C23_Witness ==
    /\ IsFrame
    /\ lastCall.mode = "LSCI"
    /\ mBufferOffset = 24
    /\ mPrgrmCount = 4
    /\ lastCall.even = Bright
    /\ mRotBuffer = << PWR_MIN >>
    /\ lastCall.moves = << <<5309, 20>> >>

\* C24 as stated: in a feedback mode entered after sync with buffer offset B,
\* at every frame boundary once the counter has reached L * ceil(B / L), the
\* entries held in power_emitted and power_updated (and rotation_power in
\* LSCI) number B in total.
C24_DepthIsOffset ==
    (/\ IsFrame /\ mSynced /\ lastCall.mode \in FeedbackModes
     /\ mPrgrmCount >= Len(mPrgrm) * CeilDiv(mBufferOffset, Len(mPrgrm)))
        => Len(mPwrBuffer) + Len(mFrmBuffer)
             + (IF lastCall.mode = "LSCI" THEN Len(mRotBuffer) ELSE 0)
           = mBufferOffset

\* C24 amended: at every such frame boundary power_emitted holds B entries and
\* power_updated holds L * ceil(B / L) - B, so the two together hold
\* L * ceil(B / L) entries, which is B when L divides B.
C24_DepthIsPass ==
    (/\ IsFrame /\ mSynced /\ lastCall.mode \in FeedbackModes
     /\ mPrgrmCount >= Len(mPrgrm) * CeilDiv(mBufferOffset, Len(mPrgrm)))
        => /\ Len(mPwrBuffer) = mBufferOffset
           /\ Len(mFrmBuffer)
                = Len(mPrgrm) * ((mBufferOffset + Len(mPrgrm) - 1) \div Len(mPrgrm))
                    - mBufferOffset

C24_Witness ==
    /\ IsFrame
    /\ mSynced
    /\ lastCall.mode = "MULTI"
    /\ mBufferOffset = 4
    /\ mPrgrmCount = 10
    /\ Len(mPwrBuffer) = 4
    /\ Len(mFrmBuffer) = 4

\* C25: every step of the installed program (each of the tables WLE, PSE,
\* LSCI, MULTI, SSFDI, WARMUP, OFF when installed) has exactly NO_LASER_DIODES
\* weights, each in [0, 1].
C25_ProgramShape ==
    \A i \in 1 .. Len(mPrgrm) :
        /\ Len(mPrgrm[i].first) = NO_LASER_DIODES
        /\ \A n \in 1 .. Len(mPrgrm[i].first) :
              RLe(R(0), mPrgrm[i].first[n]) /\ RLe(mPrgrm[i].first[n], R(1))

\* the pulse widths of a command that come from a weight of the program table
\* (the entry the LSCI mode overwrites is left out): Conv(x) is the conversion
\* of the exact product x = PW_MAX * emitted * weight
PwsAre(Conv(_)) ==
    \A i \in 1 .. Len(lastCall.fields) :
        LET r  == lastCall.fields[i]
            ws == mPrgrm[r.prgrmIdx + 1].first
        IN  \A n \in 0 .. (NO_LASER_DIODES - 1) :
              LET k == (i - 1) * NO_LASER_DIODES + n
              IN  (n + 1 <= Len(ws) /\ ~(lastCall.mode = "LSCI" /\ k = 29))
                    => /\ lastCall.cmds[1].pws[k]
                            = Conv(RMul(R(PW_MAX), RMul(r.newPwr, ws[n + 1])))
                       /\ lastCall.cmds[1].pws[k] >= 0
                       /\ lastCall.cmds[1].pws[k] <= PW_MAX

\* C26 as stated: each pulse width of a per-frame command is PW_MAX * emitted
\* * weight rounded to the nearest integer, within [0, PW_MAX].
C26_PwRounded ==
    (IsFrame /\ lastCall.fields # <<>>)
        => PwsAre(LAMBDA x : (2 * x[1] + x[2]) \div (2 * x[2]))

\* C26 amended: each pulse width of a per-frame command is the integer part of
\* PW_MAX * emitted * weight (the fraction is dropped), within [0, PW_MAX].
C26_PwTruncated ==
    (IsFrame /\ lastCall.fields # <<>>)
        => PwsAre(LAMBDA x : x[1] \div x[2])

C26_Witness ==
    /\ IsFrame
    /\ lastCall.mode = "WLE"
    /\ lastCall.fields[1].newPwr = <<1, 3>>
    /\ lastCall.cmds[1].pws[0] = 4666
    /\ lastCall.cmds[1].pws[1] = 3966

\* the observation the plant returns for an emitted power
ObsOf(e) ==
    LET y == RMul(R(4), e)
    IN  IF RGt(y, R(MAX_IMG_INTENSITY)) THEN R(MAX_IMG_INTENSITY) ELSE y

C28_FrameDriverOnly ==
    hookPc = "incr" => mainPc \notin { "prgrm", "drain", "count" }

\* C30: SetMode(SYNC) is accepted whatever the state, and after it the mode is
\* SYNC, the sync flag is false, the buffer offset is 0, the installed program
\* is the 1-step OFF program and the program counter is 0.
C30_SyncResets ==
    (lastCall.op = "SetMode" /\ lastCall.mode = "SYNC")
        => /\ lastCall.accepted
           /\ mMode = "SYNC"
           /\ ~mSynced
           /\ mBufferOffset = 0
           /\ mPrgrm = off_prgrm
           /\ Len(mPrgrm) = 1
           /\ mPrgrmCount = 0

\* SetMode(SYNC) called in a synced state that had run feedback frames: the
\* power queue it leaves alone still holds their entries
C30_Witness ==
    /\ lastCall.op = "SetMode"
    /\ lastCall.mode = "SYNC"
    /\ mPwrBuffer # <<>>
    /\ mFid >= 3
    /\ ~mSynced

\* C29: destroying the serial link terminates: once Stop has cleared the run
\* flag the next test of the loop condition ends the worker, join returns and
\* the port is closed, and the port is closed only when the worker has
\* exited, so the worker issues no read or write on a closed port.
C29_StopTerminates ==
    /\ [](closed => (wpc = "exited" /\ mainPc = "done"))
    /\ [][(wpc = "loop" /\ ~mThreadRunning /\ wpc' # wpc) => wpc' = "exited"]_vars
    /\ (mainPc = "stop") ~> (closed /\ mainPc = "done")

\* the link destroyed after the worker had written a command to the port
C29_Witness ==
    /\ closed
    /\ mainPc = "done"
    /\ wpc = "exited"
    /\ ~mThreadRunning
    /\ wire # <<>>

\* the number of steps the claim gives for each table
C31_TableLen(mode) ==
    CASE mode = "WLE"    -> 1
      [] mode = "PSE"    -> 3
      [] mode = "LSCI"   -> 2
      [] mode = "MULTI"  -> 8
      [] mode = "SSFDI"  -> 2
      [] mode = "WARMUP" -> 2
      [] mode = "OFF"    -> 1

\* the table the source text gives for each mode
C31_Table(mode) ==
    CASE mode = "WLE"    -> wle_prgrm
      [] mode = "PSE"    -> pse_prgrm
      [] mode = "LSCI"   -> lsci_prgrm
      [] mode = "MULTI"  -> multi_prgrm
      [] mode = "SSFDI"  -> ssfdi_prgrm
      [] mode = "WARMUP" -> warmup_prgrm
      [] mode = "OFF"    -> off_prgrm

\* C31: after an accepted SetMode(m), m other than SYNC, the mode is m, the
\* installed program is the table of m with the stated number of steps, the
\* three feedback queues are empty and the program counter is 0; the call
\* commands the rotation mount, to 310 degrees, exactly when m is SSFDI.
C31_EnterMode ==
    (lastCall.op = "SetMode" /\ lastCall.accepted /\ lastCall.mode # "SYNC")
        => /\ mMode = lastCall.mode
           /\ mPrgrm = C31_Table(mMode)
           /\ Len(mPrgrm) = C31_TableLen(mMode)
           /\ mPwrBuffer = <<>> /\ mFrmBuffer = <<>> /\ mRotBuffer = <<>>
           /\ mPrgrmCount = 0
           /\ IF mMode = "SSFDI"
              THEN lastCall.moves = << R(ROT_ANG_MAX) >> /\ mPosition = R(ROT_ANG_MAX)
              ELSE lastCall.moves = <<>>

\* SetMode(SSFDI) accepted in a synced state after frames have run
C31_Witness ==
    /\ lastCall.op = "SetMode"
    /\ lastCall.accepted
    /\ lastCall.mode = "SSFDI"
    /\ mSynced
    /\ mFid >= 3
    /\ mPosition = R(ROT_ANG_MAX)
    /\ Len(mPrgrm) = 2

\* C32: whatever the sequence of mode changes and frames, every power held by
\* the power_emitted queue lies in [PWR_MIN, PWR_MAX], and every field that
\* takes its power from the power_updated queue finds an element there, which
\* is not 0 and lies in [PWR_MIN, PWR_MAX].
C32_EmittedInRange ==
    /\ \A i \in 1 .. Len(mPwrBuffer) :
          RLe(PWR_MIN, mPwrBuffer[i]) /\ RLe(mPwrBuffer[i], PWR_MAX)
    /\ IsFrame
          => \A i \in 1 .. Len(lastCall.fields) :
                LET r == lastCall.fields[i]
                IN  /\ r.useFb => r.frmOk
                    /\ r.newPwr # <<0, 1>>
                    /\ RLe(PWR_MIN, r.newPwr) /\ RLe(r.newPwr, PWR_MAX)

\* a WLE frame after sync whose first field emits a feedback result taken from
\* the power_updated queue
C32_Witness ==
    /\ IsFrame
    /\ lastCall.mode = "WLE"
    /\ mSynced
    /\ Len(lastCall.fields) = 2
    /\ lastCall.fields[1].useFb
    /\ lastCall.fields[1].frmOk
    /\ lastCall.fields[1].newPwr \notin { PWR_START, PWR_MIN }
    /\ Len(mPwrBuffer) >= 2

\* C33: a field that observes while the power_emitted queue is empty takes the
\* prior power as 0 and enqueues exactly PWR_MIN on power_updated, and the
\* call still emits its one command; the feedback law gives PWR_MIN for a
\* prior power of 0 at every intensity k/3 in [0, 255] (evaluated once, in the
\* state after construction).
C33_UnderflowGivesMin ==
    /\ lastCall.op = "LightController"
          => \A x \in FnIntensities :
                ClampPwr(UpdatePower(x, <<0, 1>>)) = PWR_MIN
    /\ IsFrame
          => /\ Len(lastCall.cmds) = 1
             /\ \A i \in 1 .. Len(lastCall.fields) :
                   LET r == lastCall.fields[i]
                   IN  (r.observed /\ ~r.deqOk)
                         => r.prevPwr = <<0, 1>> /\ r.updPwr = PWR_MIN

\* the frame after the latch, still in SYNC mode: its first field observes a
\* bright frame with no prior power to pair it with
C33_Witness ==
    /\ IsFrame
    /\ lastCall.mode = "SYNC"
    /\ mSynced
    /\ Len(lastCall.fields) = 2
    /\ lastCall.odd = Bright
    /\ lastCall.fields[1].observed
    /\ ~lastCall.fields[1].deqOk
    /\ lastCall.fields[1].updPwr = PWR_MIN
    /\ Len(lastCall.cmds) = 1

\* C34: in a feedback mode entered after sync, with buffer offset B, program
\* length L and T = L * ceil(B / L): the result a field c >= B computes is the
\* feedback law applied to the power emitted at field c - B and the intensity
\* of the channel of step (c - B) mod L in the field's means, and the power
\* emitted at a field c >= T is the result computed at field c - T + B, that
\* is from the power emitted at field c - T, by the same program step.
C34_SameStepFeedback ==
    (IsFrame /\ mSynced /\ lastCall.mode \in FeedbackModes)
        => LET L == Len(mPrgrm)
               B == mBufferOffset
               T == L * ((B + L - 1) \div L)
           IN  /\ Len(updHist) = mPrgrmCount
               /\ Len(emitHist) = mPrgrmCount
               /\ \A i \in 1 .. Len(lastCall.fields) :
                     LET r == lastCall.fields[i]
                         c == r.count
                         vals == IF i = 1 THEN lastCall.odd ELSE lastCall.even
                     IN  /\ updHist[c + 1] = r.updPwr
                         /\ c >= B
                              => /\ r.intensity
                                      = ChnlVal(mPrgrm[((c - B) % L) + 1].second, vals)
                                 /\ r.updPwr
                                      = ClampPwr(UpdatePower(r.intensity,
                                                             emitHist[c - B + 1]))
                         /\ c >= T => r.prgrmIdx = (c - T) % L
               /\ \A c \in T .. (mPrgrmCount - 1) :
                     emitHist[c + 1] = updHist[c - T + B + 1]

\* PSE with buffer offset 4 (T = 6): field 6 emits the result computed at
\* field 4 from the power emitted at field 0
C34_Witness ==
    /\ IsFrame
    /\ mSynced
    /\ lastCall.mode = "PSE"
    /\ mBufferOffset = 4
    /\ mPrgrmCount = 8
    /\ lastCall.fields[1].useFb
    /\ emitHist[7] = updHist[5]
    /\ emitHist[7] # PWR_START
    /\ emitHist[7] # updHist[7]

\* C35: no per-frame command carries a reserved frame id: the frame id of
\* every per-frame command is >= 0, and a record of the outbound queue with
\* frame id -1 is the reset record of the constructor, at the head of the
\* queue before any per-frame command was enqueued ahead of it.
C35_NoReservedFid ==
    /\ IsFrame
          => /\ lastCall.cmds[1].fid >= 0
             /\ lastCall.cmds[1].fid \notin { FID_RESET, FID_ERROR }
    /\ \A i \in 1 .. Len(mOutputQueue) :
          mOutputQueue[i].fid = FID_RESET
              => i = 1 /\ mOutputQueue[i] = ResetEntry

\* C36: the worker does not exit while the outbound queue holds a record, so
\* every record handed to AddToTxQueue, also one pending when the destruction
\* begins, is written to the port: once the worker has exited the queue is
\* empty and, the port being open, the records written are all the records
\* enqueued (the reset record and one per frame).
C36_AllRecordsSent ==
    wpc = "exited"
        => /\ mOutputQueue = <<>>
           /\ errorOpening = 1 => Len(wire) = txCount + 1

\* a read of one inbound record has just been issued by the worker
ReadIssued ==
    lastCall.op = "Start" /\ lastCall.mode = "rx" /\ lastCall.log # <<>>

(***************************************************************************)
(* C37 as stated: while the worker runs on an open port, a complete record  *)
(* pending at the port (sizeof(input_entry) bytes or more) is eventually    *)
(* read into the inbound queue, with no further traffic required.           *)
(***************************************************************************)
C37_RecordMoved ==
    (PortOpen /\ mThreadRunning /\ rxBytes >= SIZEOF_INPUT_ENTRY)
        ~> (ReadIssued \/ ~mThreadRunning)

(***************************************************************************)
(* C37 amended: once more than sizeof(input_entry) bytes are pending, the   *)
(* running worker eventually issues a read of one record and enqueues it;   *)
(* while sizeof(input_entry) bytes or fewer are pending its poll leaves the *)
(* port and the inbound queue as they are.                                  *)
(***************************************************************************)
C37_RecordMovedWhenExceeded ==
    /\ (PortOpen /\ mThreadRunning /\ rxBytes > SIZEOF_INPUT_ENTRY)
           ~> (ReadIssued \/ ~mThreadRunning)
    /\ [][(wpc = "rx" /\ wpc' = "loop" /\ PortOpen
             /\ rxBytes <= SIZEOF_INPUT_ENTRY)
            => UNCHANGED <<mInputQueue, rxBytes>>]_vars
    /\ [][(wpc = "rx" /\ wpc' = "loop" /\ PortOpen
             /\ rxBytes > SIZEOF_INPUT_ENTRY)
            => /\ Len(mInputQueue') = Len(mInputQueue) + 1
               /\ rxBytes' \in { rxBytes, rxBytes - SIZEOF_INPUT_ENTRY }]_vars

\* a record has been read while more than one record's bytes were pending,
\* and exactly one record's bytes are now left at the port
C37_Witness ==
    /\ ReadIssued
    /\ lastCall.accepted
    /\ PortOpen
    /\ mThreadRunning
    /\ mInputQueue # <<>>
    /\ rxBytes = 8

(***************************************************************************)
(* C38: mBufferOffset is even in every reachable state and is at least 2    *)
(* whenever mSynced is set; mSynced is set only by an IncrementPrgrm call   *)
(* made in SYNC mode and is cleared only by SetMode(SYNC).                  *)
(***************************************************************************)
C38_OffsetAndFlag ==
    /\ [](mBufferOffset % 2 = 0 /\ (mSynced => mBufferOffset >= 2))
    /\ [][(~mSynced /\ mSynced')
            => /\ mMode = "SYNC"
               /\ lastCall'.op = "IncrementPrgrm"
               /\ lastCall'.mode = "SYNC"]_vars
    /\ [][(mSynced /\ ~mSynced')
            => /\ lastCall'.op = "SetMode"
               /\ lastCall'.mode = "SYNC"
               /\ lastCall'.accepted]_vars

\* the search has just latched the flag, after at least one call that did
\* not detect the flash
C38_Witness ==
    /\ lastCall.op = "IncrementPrgrm"
    /\ lastCall.mode = "SYNC"
    /\ lastCall.log # <<>>
    /\ lastCall.log[1] = "SYNCED"
    /\ mSynced
    /\ mBufferOffset >= 4

(***************************************************************************)
(* C39: mPrgrmCount is even in every reachable state, hence before and       *)
(* after every IncrementPrgrm call in every mode; the two fields of a frame *)
(* run with an even and the next odd count, so in the 2-step programs       *)
(* (LSCI, SSFDI) the odd field uses program step 0 and the even field step  *)
(* 1, and in LSCI the high-coherence diode (index 14) has a weight only in  *)
(* the step of the even field and is not driven on the odd field.           *)
(***************************************************************************)
C39_EvenCounter ==
    /\ mPrgrmCount % 2 = 0
    /\ (IsFrame /\ lastCall.fields # <<>>)
          => /\ Len(lastCall.fields) = 2
             /\ lastCall.fields[1].count % 2 = 0
             /\ lastCall.fields[2].count = lastCall.fields[1].count + 1
             /\ mPrgrmCount = lastCall.fields[1].count + 2
    /\ (IsFrame /\ lastCall.mode \in { "LSCI", "SSFDI" })
          => /\ Len(mPrgrm) = 2
             /\ Len(lastCall.fields) = 2
             /\ lastCall.fields[1].prgrmIdx = 0
             /\ lastCall.fields[2].prgrmIdx = 1
    /\ (IsFrame /\ lastCall.mode = "LSCI")
          => /\ Weight(mPrgrm, lastCall.fields[1].prgrmIdx,
                       NO_LASER_DIODES - 1, <<0, 1>>) = <<0, 1>>
             /\ Weight(mPrgrm, lastCall.fields[2].prgrmIdx,
                       NO_LASER_DIODES - 1, <<0, 1>>) = <<1, 1>>
             /\ lastCall.cmds[1].pws[NO_LASER_DIODES - 1] = 0
             /\ lastCall.cmds[1].pws[2 * NO_LASER_DIODES - 1] > 0

\* the second frame of the LSCI mode: the counter has gone from 2 to 4 and
\* the two fields have used steps 0 and 1
C39_Witness ==
    /\ IsFrame
    /\ lastCall.mode = "LSCI"
    /\ Len(lastCall.fields) = 2
    /\ lastCall.fields[1].count = 2
    /\ lastCall.fields[1].prgrmIdx = 0
    /\ lastCall.fields[2].prgrmIdx = 1
    /\ mPrgrmCount = 4
    /\ lastCall.cmds[1].pws[0] > 0

(***************************************************************************)
(* C40: of the IncrementPrgrm calls made in SYNC mode since the last        *)
(* SetMode(SYNC), the first one (the counter goes from 0 to 2) emits the    *)
(* flash and is the only one to do so: every later one, during the search   *)
(* and after the flag has latched, emits a command whose 30 pulse widths    *)
(* are 0.                                                                   *)
(***************************************************************************)
C40_OneFlash ==
    (IsFrame /\ lastCall.mode = "SYNC")
        => /\ mPrgrmCount = 2 + 2 * syncPolls + 2 * postLatchFrames
           /\ IF mPrgrmCount = 2
              THEN /\ ~AllZero(lastCall.cmds[1].pws)
                   /\ lastCall.fields = <<>>
                   /\ ~mSynced
              ELSE AllZero(lastCall.cmds[1].pws)

\* a frame processed in SYNC mode after the flag has latched, with a bright
\* odd field, has emitted an all-zero command
C40_Witness ==
    /\ IsFrame
    /\ lastCall.mode = "SYNC"
    /\ mSynced
    /\ syncPolls >= 1
    /\ postLatchFrames >= 1
    /\ Len(lastCall.fields) = 2
    /\ lastCall.odd = Bright
    /\ AllZero(lastCall.cmds[1].pws)

====
